---------------------------- MODULE Spec2Model ----------------------------
(***************************************************************************)
(* Model of the version tooling of pagopa/selfcare-monorepo-poc:           *)
(*   tools/nx-maven-version/release-version-actions.js  (pom.xml actions)  *)
(*   tools/nx-maven-version/src/version-resolver.js     (getVersion/set)   *)
(*   tools/nx-maven-version/src/generators/version/generator.js            *)
(*   scripts/sync-pom-version.js                        (release script)   *)
(*                                                                         *)
(* A text is a sequence of tokens.  A token is one character ("g", ".",    *)
(* "1", "\n", ...) or one whole XML tag ("<version>", "</version>", ...).  *)
(* Every regular expression of the source starts at a tag literal and is   *)
(* followed, after each quantifier, by a tag literal, a group end or the   *)
(* end of the pattern, so matching token by token is matching character by *)
(* character on texts whose "<" all belong to tags.                        *)
(***************************************************************************)
EXTENDS Integers, Sequences, FiniteSets, TLC

VARIABLES
    pomXml,       \* the manifest text handed to the pure pom.xml functions
    projectName,  \* the project name (projectGraphNode.name)
    tree,         \* the Nx tree: the staged content of the files
    disk,         \* the project directory of the version resolver on disk
    res,          \* what the last call returned or threw
    plansDir,     \* the directory .nx/version-plans: its listing and files
    options,      \* the options of a generator call, the arguments of a script
    run           \* the release script: its position, steps taken and exit code

vars == <<pomXml, projectName, tree, disk, res, plansDir, options, run>>

\* ------------------------------------------------------------------ bounds

\* number of element blocks (declaration, parent, dependency) in a manifest
MaxBlocks == 2

\* number of characters in a project name
MaxNameLen == 4

\* the largest number of files in the version plans directory
MaxFiles == 2

\* the largest number of projects in a run of the version generator
MaxProjects == 2

\* the largest number of entries of the apps directory
MaxApps == 2

\* ------------------------------------------------------------------ tokens


IsWs(c) == c \in {" ", "\n"}

\* a tag token starts with "<"; every other token is a character other than "<"
IsTag(c) == c \in ({"<groupId>", "</groupId>", "<artifactId>", "</artifactId>",
                    "<version>", "</version>", "<dependency>", "</dependency>",
                    "<parent>", "</parent>", "<packaging>", "</packaging>"})

\* the null of the source (a missing match, a missing file)
Null == <<"null">>

\* half-open slice text[a .. b-1]
Slice(txt, a, b) == SubSeq(txt, a, b - 1)

\* ----------------------------------------------------- regular expressions

\* Atoms of a pattern.  cls is a character class: "ws" is \s, "nlt" is [^<],
\* "any" is [\s\S], "quote" is ['"], "nquote" is [^'"], "word" is \w,
\* "version" is [\d\.\-a-zA-Z].
Lit(c)      == [t |-> "lit",    c |-> c,   n |-> 0]
Greedy(cls, min) == [t |-> "greedy", c |-> cls, n |-> min]
Lazy(cls)   == [t |-> "lazy",   c |-> cls, n |-> 0]
Open(g)     == [t |-> "open",   c |-> "",  n |-> g]
Close(g)    == [t |-> "close",  c |-> "",  n |-> g]
One(cls)    == [t |-> "one",    c |-> cls, n |-> 0]

\* the tokens of \w: a letter, a digit, or a word made of letters
WordTokens == {"a", "b", "x", "0", "1", "2", "3", "patch", "minor", "major", "bogus"}
IsQuote(c) == c \in {"'", "\""}


InClass(cls, c) ==
    CASE cls = "ws"  -> IsWs(c)
      [] cls = "nlt" -> ~IsTag(c)
      [] cls = "any" -> TRUE
      [] cls = "quote"  -> IsQuote(c)
      [] cls = "nquote" -> ~IsQuote(c)
      [] cls = "word"   -> c \in WordTokens
      [] cls = "version" -> c \in ({"0", "1", "2", "3", ".", "-", "a", "b", "g", "h", "j", "x"})

\* length of the longest run of class cls starting at txt[i]
RECURSIVE RunLen(_, _, _)
RunLen(cls, txt, i) ==
    IF i > Len(txt) \/ ~InClass(cls, txt[i]) THEN 0
    ELSE 1 + RunLen(cls, txt, i + 1)

NoCaps == [g \in 1..3 |-> <<0, 0>>]
Fail   == [ok |-> FALSE, from |-> 0, end |-> 0, caps |-> NoCaps]

\* Backtracking match of atoms p[k..] against txt from position i, in the
\* priority order of a backtracking engine: a greedy quantifier tries the
\* longest run first, a lazy one the shortest.
RECURSIVE MatchAt(_, _, _, _, _, _)
RECURSIVE TryGreedy(_, _, _, _, _, _, _)
RECURSIVE TryLazy(_, _, _, _, _, _, _, _)

MatchAt(p, k, txt, s, i, caps) ==
    IF k > Len(p) THEN [ok |-> TRUE, from |-> s, end |-> i, caps |-> caps]
    ELSE LET a == p[k] IN
      CASE a.t = "lit" ->
             IF i <= Len(txt) /\ txt[i] = a.c
             THEN MatchAt(p, k + 1, txt, s, i + 1, caps) ELSE Fail
        [] a.t = "one" ->
             IF i <= Len(txt) /\ InClass(a.c, txt[i])
             THEN MatchAt(p, k + 1, txt, s, i + 1, caps) ELSE Fail
        [] a.t = "open" ->
             MatchAt(p, k + 1, txt, s, i, [caps EXCEPT ![a.n] = <<i, i>>])
        [] a.t = "close" ->
             MatchAt(p, k + 1, txt, s, i, [caps EXCEPT ![a.n] = <<caps[a.n][1], i>>])
        [] a.t = "greedy" ->
             TryGreedy(p, k, txt, s, i, caps, RunLen(a.c, txt, i))
        [] a.t = "lazy" ->
             TryLazy(p, k, txt, s, i, caps, 0, RunLen(a.c, txt, i))

TryGreedy(p, k, txt, s, i, caps, n) ==
    IF n < p[k].n THEN Fail
    ELSE LET r == MatchAt(p, k + 1, txt, s, i + n, caps) IN
         IF r.ok THEN r ELSE TryGreedy(p, k, txt, s, i, caps, n - 1)

TryLazy(p, k, txt, s, i, caps, n, max) ==
    IF n > max THEN Fail
    ELSE LET r == MatchAt(p, k + 1, txt, s, i + n, caps) IN
         IF r.ok THEN r ELSE TryLazy(p, k, txt, s, i, caps, n + 1, max)

\* RegExp.prototype.exec without the g flag: the leftmost match
RECURSIVE ExecFrom(_, _, _)
ExecFrom(p, txt, s) ==
    IF s > Len(txt) + 1 THEN Fail
    ELSE LET r == MatchAt(p, 1, txt, s, s, NoCaps) IN
         IF r.ok THEN r ELSE ExecFrom(p, txt, s + 1)

Exec(p, txt) == ExecFrom(p, txt, 1)

\* the text of capture group g of a match
Group(txt, m, g) == Slice(txt, m.caps[g][1], m.caps[g][2])

\* String.prototype.replace(regexp, template) for a template made of group
\* references [g |-> n] and literal texts [s |-> text]: the first match is
\* replaced, the text is returned as it is when there is none.
RECURSIVE Expand(_, _, _)
Expand(tmpl, txt, m) ==
    IF tmpl = <<>> THEN <<>>
    ELSE LET h == Head(tmpl) IN
         (IF h.g > 0 THEN Group(txt, m, h.g) ELSE h.s) \o Expand(Tail(tmpl), txt, m)

Ref(g)  == [g |-> g, s |-> <<>>]
Text(s) == [g |-> 0, s |-> s]

\* m is the match Exec(p, txt) that replace() finds
ReplaceMatch(txt, m, tmpl) ==
    IF ~m.ok THEN txt
    ELSE Slice(txt, 1, m.from) \o Expand(tmpl, txt, m) \o Slice(txt, m.end, Len(txt) + 1)

ReplaceRegExp(txt, p, tmpl) == ReplaceMatch(txt, Exec(p, txt), tmpl)

\* String.prototype.replace(pattern string, replacement): the first occurrence
RECURSIVE IndexOfFrom(_, _, _)
IndexOfFrom(txt, sub, s) ==
    IF s + Len(sub) - 1 > Len(txt) THEN 0
    ELSE IF Slice(txt, s, s + Len(sub)) = sub THEN s
    ELSE IndexOfFrom(txt, sub, s + 1)

ReplaceString(txt, sub, by) ==
    LET s == IndexOfFrom(txt, sub, 1) IN
    IF s = 0 THEN txt
    ELSE Slice(txt, 1, s) \o by \o Slice(txt, s + Len(sub), Len(txt) + 1)

\* ------------------------------------------- release-version-actions.js

\* String.prototype.split(sep): all the segments between the separators
RECURSIVE split(_, _)
split(str, sep) ==
    LET i == IndexOfFrom(str, <<sep>>, 1) IN
    IF i = 0 THEN <<str>>
    ELSE <<Slice(str, 1, i)>> \o split(Slice(str, i + 1, Len(str) + 1), sep)

\* String.prototype.split(sep, limit): the first limit segments, the rest dropped
splitLimit(str, sep, limit) ==
    LET all == split(str, sep) IN
    SubSeq(all, 1, IF Len(all) < limit THEN Len(all) ELSE limit)

\* !value of a string or null
Falsy(value) == value = Null \/ value = <<>>

\* the null that parseMavenCoords returns in place of coordinates
NoCoords == [groupId |-> Null, artifactId |-> Null]

parseMavenCoords(name) ==
    IF Falsy(name) \/ IndexOfFrom(name, <<":">>, 1) = 0 THEN NoCoords
    ELSE LET parts == splitLimit(name, ":", 2)
             groupId == parts[1]
             artifactId == parts[2]
         IN IF Falsy(groupId) \/ Falsy(artifactId) THEN NoCoords
            ELSE [groupId |-> groupId, artifactId |-> artifactId]

\* every character of the value is matched literally
escapeRegExp(value) == [i \in 1..Len(value) |-> Lit(value[i])]

ws == <<Greedy("ws", 0)>>
T(tag) == <<Lit(tag)>>

\* <groupId>\s*G\s*<\/groupId>[\s\S]*?<artifactId>\s*A\s*<\/artifactId>\s*<version>
ProjectPrefix(coords) ==
    T("<groupId>") \o ws \o escapeRegExp(coords.groupId) \o ws \o T("</groupId>")
    \o <<Lazy("any")>>
    \o T("<artifactId>") \o ws \o escapeRegExp(coords.artifactId) \o ws
    \o T("</artifactId>") \o ws \o T("<version>")

readProjectVersionFromPom(xml, coords) ==
    LET pattern == ProjectPrefix(coords)
                   \o <<Open(1), Greedy("nlt", 1), Close(1)>> \o T("</version>")
        match == Exec(pattern, xml)
    IN IF match.ok THEN Group(xml, match, 1) ELSE Null

\* updateProjectVersionInPom with the template `$1${newVersion}$2`
updateProjectVersionInPom_WrongGroup(xml, coords, newVersion) ==
    LET pattern == <<Open(1)>> \o ProjectPrefix(coords) \o <<Close(1)>>
                   \o <<Open(2), Greedy("nlt", 1), Close(2)>>
                   \o <<Open(3)>> \o T("</version>") \o <<Close(3)>>
        test == Exec(pattern, xml)
    IN IF ~test.ok THEN Null
       ELSE ReplaceMatch(xml, test, <<Ref(1), Text(newVersion), Ref(2)>>)

\* updateProjectVersionInPom without the test of the pattern: a bare replace
updateProjectVersionInPom_NoTest(xml, coords, newVersion) ==
    LET pattern == <<Open(1)>> \o ProjectPrefix(coords) \o <<Close(1)>>
                   \o <<Open(2), Greedy("nlt", 1), Close(2)>>
                   \o <<Open(3)>> \o T("</version>") \o <<Close(3)>>
    IN ReplaceRegExp(xml, pattern, <<Ref(1), Text(newVersion), Ref(3)>>)

updateProjectVersionInPom(xml, coords, newVersion) ==
    LET pattern == <<Open(1)>> \o ProjectPrefix(coords) \o <<Close(1)>>
                   \o <<Open(2), Greedy("nlt", 1), Close(2)>>
                   \o <<Open(3)>> \o T("</version>") \o <<Close(3)>>
        test == Exec(pattern, xml)
    IN IF ~test.ok THEN Null
       ELSE ReplaceMatch(xml, test, <<Ref(1), Text(newVersion), Ref(3)>>)


\* <dependency>\s*[\s\S]*?<groupId>\s*G\s*<\/groupId>\s*[\s\S]*?
\*   <artifactId>\s*A\s*<\/artifactId>[\s\S]*?<\/dependency>
depBlockPattern(coords) ==
    T("<dependency>") \o ws \o <<Lazy("any")>>
    \o T("<groupId>") \o ws \o escapeRegExp(coords.groupId) \o ws \o T("</groupId>")
    \o ws \o <<Lazy("any")>>
    \o T("<artifactId>") \o ws \o escapeRegExp(coords.artifactId) \o ws
    \o T("</artifactId>") \o <<Lazy("any")>> \o T("</dependency>")

\* (<version>\s*)([^<]+)(\s*<\/version>)
depVersionPattern ==
    <<Open(1)>> \o T("<version>") \o ws \o <<Close(1)>>
    \o <<Open(2), Greedy("nlt", 1), Close(2)>>
    \o <<Open(3)>> \o ws \o T("</version>") \o <<Close(3)>>

readDependencyVersionFromPom(xml, dependencyCoords) ==
    LET depBlockMatch == Exec(depBlockPattern(dependencyCoords), xml) IN
    IF ~depBlockMatch.ok THEN Null
    ELSE LET depBlock == Slice(xml, depBlockMatch.from, depBlockMatch.end)
             versionMatch == Exec(depVersionPattern, depBlock)
         IN IF versionMatch.ok THEN Group(depBlock, versionMatch, 2) ELSE Null

updateDependencyVersionInPom(xml, dependencyCoords, newVersion) ==
    LET depBlockMatch == Exec(depBlockPattern(dependencyCoords), xml) IN
    IF ~depBlockMatch.ok THEN Null
    ELSE LET depBlock == Slice(xml, depBlockMatch.from, depBlockMatch.end)
             test == Exec(depVersionPattern, depBlock)
         IN IF test.ok
            THEN LET updatedBlock == ReplaceMatch(depBlock, test,
                                         <<Ref(1), Text(newVersion), Ref(3)>>)
                 IN ReplaceString(xml, depBlock, updatedBlock)
            ELSE xml

\* --------------------------------------------------------------- manifests

Coords      == [groupId : {<<"g">>, <<"h">>}, artifactId : {<<"a">>, <<"b">>}]

\* the coordinates the functions are called with
Targets == {[groupId |-> <<"g">>, artifactId |-> <<"a">>],
            [groupId |-> <<"h">>, artifactId |-> <<"b">>]}

\* the versions written into manifests (manifests hold "1" and "2")
NewVersions == {<<"1">>, <<"1", ".", "1">>}
NoVersion   == <<>>

\* the text between two elements: nothing, or a line break

Elem(open, val, close, sep) == <<open>> \o val \o <<close>> \o sep
Gid(g, sep) == Elem("<groupId>", g, "</groupId>", sep)
Aid(a, sep) == Elem("<artifactId>", a, "</artifactId>", sep)
Ver(v, sep) == IF v = NoVersion THEN <<>> ELSE Elem("<version>", v, "</version>", sep)

DependencyBlock(g, a, v, sep) ==
    <<"<dependency>">> \o sep \o Gid(g, sep) \o Aid(a, sep) \o Ver(v, sep)
    \o <<"</dependency>">> \o sep

ParentBlock(g, a, v, sep) ==
    <<"<parent>">> \o sep \o Gid(g, sep) \o Aid(a, sep) \o Ver(v, sep)
    \o <<"</parent>">> \o sep

\* the project's own declaration: the groupId may be inherited from the parent,
\* the version may be inherited or may follow another element
Declaration(g, a, mid, v, sep) ==
    (IF g = <<>> THEN <<>> ELSE Gid(g, sep)) \o Aid(a, sep)
    \o (IF mid THEN Elem("<packaging>", <<"j">>, "</packaging>", sep) ELSE <<>>)
    \o Ver(v, sep)

Declarations(sep) ==
    {Declaration(g, <<"a">>, FALSE, v, sep) :
        g \in {<<>>, <<"g">>}, v \in {NoVersion, <<"1">>}}
    \cup {Declaration(g, <<"a">>, TRUE, <<"1">>, sep) : g \in {<<>>, <<"g">>}}

Blocks(sep) ==
    {DependencyBlock(c.groupId, c.artifactId, v, sep) :
        c \in Coords, v \in {NoVersion, <<"1">>}}
    \cup {DependencyBlock(<<"g">>, <<"a">>, <<"2">>, sep)}
    \cup {ParentBlock(<<"g">>, <<"b">>, <<"1">>, sep),
          ParentBlock(<<"h">>, <<"b">>, <<"2">>, sep)}
    \cup Declarations(sep)

RECURSIVE Concat(_)
Concat(ss) == IF ss = <<>> THEN <<>> ELSE Head(ss) \o Concat(Tail(ss))

\* the manifests of one to n blocks, written on one line or on several
RECURSIVE ManifestsUpTo(_)
ManifestsUpTo(n) ==
    IF n = 0 THEN {}
    ELSE ManifestsUpTo(n - 1)
         \cup {Concat(bs) : bs \in [1..n -> Blocks(<<>>)]}
         \cup {Concat(bs) : bs \in [1..n -> Blocks(<<"\n">>)]}

Manifests == ManifestsUpTo(MaxBlocks)

\* ------------------------------------------------ the pure pom.xml functions

NoCall == [op |-> "none"]

InitPom ==
    /\ pomXml \in Manifests
    /\ projectName = <<>>
    /\ tree = <<>>
    /\ disk = <<>>
    /\ res = NoCall
    /\ plansDir = <<>>
    /\ options = <<>>
    /\ run = <<>>

ReadProjectVersion ==
    /\ res = NoCall
    /\ \E c \in Targets :
           /\ res' = [op |-> "readProjectVersionFromPom", coords |-> c,
                   out |-> readProjectVersionFromPom(pomXml, c)]
           /\ UNCHANGED <<plansDir, options, run, pomXml, projectName, tree, disk>>

UpdateProjectVersion ==
    /\ res = NoCall
    /\ \E c \in Targets, v \in NewVersions :
           /\ res' = [op |-> "updateProjectVersionInPom", coords |-> c, ver |-> v,
                   out |-> updateProjectVersionInPom(pomXml, c, v)]
           /\ UNCHANGED <<plansDir, options, run, pomXml, projectName, tree, disk>>

ReadDependencyVersion ==
    /\ res = NoCall
    /\ \E c \in Targets :
           /\ res' = [op |-> "readDependencyVersionFromPom", coords |-> c,
                   out |-> readDependencyVersionFromPom(pomXml, c)]
           /\ UNCHANGED <<plansDir, options, run, pomXml, projectName, tree, disk>>

UpdateDependencyVersion ==
    /\ res = NoCall
    /\ \E c \in Targets, v \in NewVersions :
           /\ res' = [op |-> "updateDependencyVersionInPom", coords |-> c, ver |-> v,
                   out |-> updateDependencyVersionInPom(pomXml, c, v)]
           /\ UNCHANGED <<plansDir, options, run, pomXml, projectName, tree, disk>>

NextPom ==
    \/ ReadProjectVersion
    \/ UpdateProjectVersion
    \/ ReadDependencyVersion
    \/ UpdateDependencyVersion

SpecPom == InitPom /\ [][NextPom]_vars

\* ----------------------------------------------------- MavenVersionActions

\* join(projectGraphNode.data.root, 'pom.xml'), and the manifests Nx resolved
\* for the project (manifestRootsToUpdate): the source manifest and a copy
SourcePath == "apps/a/pom.xml"
DistPath   == "dist/a/pom.xml"
manifestsToUpdate == <<SourcePath, DistPath>>
TreePaths  == {SourcePath, DistPath}

\* tree.read gives null for a missing file
readText(t, filePath) == t[filePath]
writeText(t, filePath, content) == [t EXCEPT ![filePath] = content]

Threw(op, error, at) == [op |-> op, status |-> "error", error |-> error, at |-> at]

readCurrentVersionFromSourceManifest(t, name) ==
    LET coords == parseMavenCoords(name)
        xml == readText(t, SourcePath)
    IN IF Falsy(xml)
       THEN Threw("readCurrentVersionFromSourceManifest", "manifest unreadable", SourcePath)
       ELSE IF coords = NoCoords
       THEN Threw("readCurrentVersionFromSourceManifest", "no coordinates", SourcePath)
       ELSE LET currentVersion == readProjectVersionFromPom(xml, coords) IN
            IF Falsy(currentVersion)
            THEN Threw("readCurrentVersionFromSourceManifest", "no version", SourcePath)
            ELSE [op |-> "readCurrentVersionFromSourceManifest", status |-> "ok",
                  manifestPath |-> SourcePath, currentVersion |-> currentVersion]

readCurrentVersionOfDependency(t, dependencyProjectName) ==
    LET dependencyCoords == parseMavenCoords(dependencyProjectName)
        xml == readText(t, SourcePath)
        none == [op |-> "readCurrentVersionOfDependency", status |-> "ok",
                 currentVersion |-> Null, dependencyCollection |-> Null]
    IN IF dependencyCoords = NoCoords THEN none
       ELSE IF Falsy(xml) THEN none
       ELSE [op |-> "readCurrentVersionOfDependency", status |-> "ok",
             currentVersion |-> readDependencyVersionFromPom(xml, dependencyCoords),
             dependencyCollection |-> <<"dependencies">>]

\* the loop of updateProjectVersion over manifestsToUpdate[k..]: the tree as
\* written so far, and the log messages or the error thrown
RECURSIVE updateProjectVersionFrom(_, _, _, _, _)
updateProjectVersionFrom(t, coords, newVersion, k, logMessages) ==
    IF k > Len(manifestsToUpdate)
    THEN [tree |-> t, res |-> [op |-> "updateProjectVersion", status |-> "ok",
                               log |-> logMessages]]
    ELSE LET path == manifestsToUpdate[k]
             xml == readText(t, path)
         IN IF Falsy(xml)
            THEN [tree |-> t,
                  res |-> Threw("updateProjectVersion", "manifest unreadable", path)]
            ELSE LET updated == updateProjectVersionInPom(xml, coords, newVersion) IN
                 IF Falsy(updated)
                 THEN [tree |-> t,
                       res |-> Threw("updateProjectVersion", "version not updated", path)]
                 ELSE updateProjectVersionFrom(writeText(t, path, updated), coords,
                          newVersion, k + 1, Append(logMessages, path))

updateProjectVersion(t, name, newVersion) ==
    LET coords == parseMavenCoords(name) IN
    IF coords = NoCoords
    THEN [tree |-> t, res |-> Threw("updateProjectVersion", "no coordinates", "")]
    ELSE updateProjectVersionFrom(t, coords, newVersion, 1, <<>>)

\* the inner loop of updateProjectDependencies over deps[j..]
RECURSIVE updateDependenciesIn(_, _, _, _)
updateDependenciesIn(xml, deps, j, updatedCount) ==
    IF j > Len(deps) THEN [xml |-> xml, updatedCount |-> updatedCount]
    ELSE LET depCoords == parseMavenCoords(deps[j].name) IN
         IF depCoords = NoCoords THEN updateDependenciesIn(xml, deps, j + 1, updatedCount)
         ELSE LET updatedPom == updateDependencyVersionInPom(xml, depCoords, deps[j].ver) IN
              IF updatedPom # Null /\ updatedPom # xml
              THEN updateDependenciesIn(updatedPom, deps, j + 1, updatedCount + 1)
              ELSE updateDependenciesIn(xml, deps, j + 1, updatedCount)

RECURSIVE updateProjectDependenciesFrom(_, _, _, _)
updateProjectDependenciesFrom(t, deps, k, logMessages) ==
    IF k > Len(manifestsToUpdate)
    THEN [tree |-> t, res |-> [op |-> "updateProjectDependencies", status |-> "ok",
                               log |-> logMessages]]
    ELSE LET path == manifestsToUpdate[k]
             xml == readText(t, path)
         IN IF Falsy(xml)
            THEN [tree |-> t,
                  res |-> Threw("updateProjectDependencies", "manifest unreadable", path)]
            ELSE LET r == updateDependenciesIn(xml, deps, 1, 0) IN
                 IF r.updatedCount > 0
                 THEN updateProjectDependenciesFrom(writeText(t, path, r.xml), deps, k + 1,
                          Append(logMessages, <<path, r.updatedCount>>))
                 ELSE updateProjectDependenciesFrom(t, deps, k + 1, logMessages)

updateProjectDependencies(t, deps) ==
    IF Len(deps) = 0
    THEN [tree |-> t, res |-> [op |-> "updateProjectDependencies", status |-> "ok",
                               log |-> <<>>]]
    ELSE updateProjectDependenciesFrom(t, deps, 1, <<>>)

\* the source manifests in the tree: a declaration, after a parent entry or not,
\* before a dependency entry or not
ProjectPoms ==
    {p \o d \o e : p \in {<<>>, ParentBlock(<<"g">>, <<"b">>, <<"1">>, <<"\n">>)},
                   d \in Declarations(<<"\n">>),
                   e \in {<<>>, DependencyBlock(<<"g">>, <<"b">>, <<"1">>, <<"\n">>),
                          DependencyBlock(<<"h">>, <<"a">>, <<"1">>, <<"\n">>),
                          DependencyBlock(<<"g">>, <<"b">>, NoVersion, <<"\n">>)}}

\* the source manifest may also be missing from the tree, or empty
SourceManifests == ProjectPoms \cup {Null, <<>>}

DistManifests ==
    {Null, Declaration(<<"g">>, <<"a">>, FALSE, <<"1">>, <<>>),
           Declaration(<<"g">>, <<"a">>, FALSE, NoVersion, <<>>)}

DependencyNames == {<<"g", ":", "b">>, <<"h", ":", "a">>, <<"b">>}

InitActions ==
    /\ pomXml = <<>>
    /\ projectName \in {<<"g", ":", "a">>, <<"g", "a">>}
    /\ tree \in [TreePaths -> SourceManifests \cup DistManifests]
    /\ tree[SourcePath] \in SourceManifests
    /\ tree[DistPath] \in DistManifests
    /\ disk = <<>>
    /\ res = NoCall
    /\ plansDir = <<>>
    /\ options = <<>>
    /\ run = <<>>

ReadCurrentVersionFromSourceManifest ==
    /\ res' = readCurrentVersionFromSourceManifest(tree, projectName)
    /\ UNCHANGED <<plansDir, options, run, pomXml, projectName, tree, disk>>

\* no registry is consulted
ReadCurrentVersionFromRegistry ==
    /\ res' = [op |-> "readCurrentVersionFromRegistry", status |-> "ok",
               currentVersion |-> Null, logText |-> "maven:registry-not-supported"]
    /\ UNCHANGED <<plansDir, options, run, pomXml, projectName, tree, disk>>

ReadCurrentVersionOfDependency ==
    \E n \in DependencyNames :
        /\ res' = readCurrentVersionOfDependency(tree, n)
        /\ UNCHANGED <<plansDir, options, run, pomXml, projectName, tree, disk>>

UpdateProjectVersionAction ==
    \E v \in NewVersions :
        LET r == updateProjectVersion(tree, projectName, v) IN
        /\ tree' = r.tree
        /\ res' = [r.res EXCEPT !.op = "updateProjectVersion"] @@ [ver |-> v]
        /\ UNCHANGED <<plansDir, options, run, pomXml, projectName, disk>>

UpdateProjectDependencies ==
    \E deps \in {<<>>} \cup {<<[name |-> n, ver |-> <<"1", ".", "1">>]>> : n \in DependencyNames} :
        LET r == updateProjectDependencies(tree, deps) IN
        /\ tree' = r.tree
        /\ res' = r.res
        /\ UNCHANGED <<plansDir, options, run, pomXml, projectName, disk>>

NextActions ==
    \/ ReadCurrentVersionFromSourceManifest
    \/ ReadCurrentVersionFromRegistry
    \/ ReadCurrentVersionOfDependency
    \/ UpdateProjectVersionAction
    \/ UpdateProjectDependencies

SpecActions == InitActions /\ [][NextActions]_vars

\* ------------------------------------------------------- version-resolver.js
\* The project directory holds pom.xml and package.json, each present or not.
\* A pom.xml is a text.  A package.json is its parsed content: whether it
\* parses, its fields in key order, and whether its text is laid out as
\* JSON.stringify(value, null, 2) followed by a line break.

NoFile    == [exists |-> FALSE, text |-> <<>>]
PomFile(text) == [exists |-> TRUE, text |-> text]
NoJson    == [exists |-> FALSE, valid |-> FALSE, fields |-> <<>>, pretty |-> FALSE]
JsonFile(fields, pretty) ==
    [exists |-> TRUE, valid |-> TRUE, fields |-> fields, pretty |-> pretty]

isMavenProject(d) == d.pom.exists

\* /<artifactId>[^<]+<\/artifactId>\s*<version>([^<]+)<\/version>/
resolverReadPattern ==
    T("<artifactId>") \o <<Greedy("nlt", 1)>> \o T("</artifactId>") \o ws
    \o T("<version>") \o <<Open(1), Greedy("nlt", 1), Close(1)>> \o T("</version>")

\* /(<artifactId>[^<]+<\/artifactId>\s*<version>)[^<]+(<\/version>)/
resolverWritePattern ==
    <<Open(1)>> \o T("<artifactId>") \o <<Greedy("nlt", 1)>> \o T("</artifactId>")
    \o ws \o T("<version>") \o <<Close(1)>> \o <<Greedy("nlt", 1)>>
    \o <<Open(2)>> \o T("</version>") \o <<Close(2)>>

Raised(op, error) == [op |-> op, status |-> "error", error |-> error]

getVersionFromPom(d) ==
    IF ~d.pom.exists THEN Raised("getVersion", "pom.xml not found")
    ELSE LET versionMatch == Exec(resolverReadPattern, d.pom.text) IN
         IF ~versionMatch.ok THEN Raised("getVersion", "Could not find version in pom.xml")
         ELSE [op |-> "getVersion", status |-> "ok",
               out |-> Group(d.pom.text, versionMatch, 1)]

\* the value of a field of the parsed object, <<"undefined">> without the field
RECURSIVE FieldOf(_, _)
FieldOf(fields, key) ==
    IF fields = <<>> THEN <<"undefined">>
    ELSE IF Head(fields).k = key THEN Head(fields).v ELSE FieldOf(Tail(fields), key)

HasField(fields, key) == \E i \in 1..Len(fields) : fields[i].k = key

\* an assignment that leaves the value of an existing key as it is
SetField_KeepFirst(fields, key, value) ==
    IF HasField(fields, key) THEN fields
    ELSE Append(fields, [k |-> key, v |-> value])

\* object.key = value: the value of an existing key is replaced where it is,
\* a new key is added after the others
SetField(fields, key, value) ==
    IF HasField(fields, key)
    THEN [i \in 1..Len(fields) |->
             IF fields[i].k = key THEN [k |-> key, v |-> value] ELSE fields[i]]
    ELSE Append(fields, [k |-> key, v |-> value])

\* a reader that returns the version field whatever it holds
getVersionFromPackageJson_NoFieldCheck(d) ==
    IF ~d.pkg.exists THEN Raised("getVersion", "package.json not found")
    ELSE IF ~d.pkg.valid THEN Raised("getVersion", "SyntaxError")
    ELSE [op |-> "getVersion", status |-> "ok",
          out |-> FieldOf(d.pkg.fields, "version")]

getVersionFromPackageJson(d) ==
    IF ~d.pkg.exists THEN Raised("getVersion", "package.json not found")
    ELSE IF ~d.pkg.valid THEN Raised("getVersion", "SyntaxError")
    ELSE LET version == FieldOf(d.pkg.fields, "version") IN
         IF version = <<"undefined">> \/ version = <<>>
         THEN Raised("getVersion", "No version field in package.json")
         ELSE [op |-> "getVersion", status |-> "ok", out |-> version]

\* a reader that looks at package.json first
getVersion_PrefersJson(d) ==
    IF d.pkg.exists THEN getVersionFromPackageJson(d) ELSE getVersionFromPom(d)

getVersion(d) ==
    IF isMavenProject(d) THEN getVersionFromPom(d) ELSE getVersionFromPackageJson(d)

\* tree.exists and tree.read: the staged content of a file, the disk otherwise
treeExists(t, d, file) == t[file].exists \/ d[file].exists
treeRead(t, d, file)   == IF t[file].exists THEN t[file] ELSE d[file]

\* setVersionInPom and setVersionInPackageJson: the tree and the disk after the
\* call, and what it returned; useTree says that a tree was passed
setVersionInPom(t, d, newVersion, useTree) ==
    IF ~d.pom.exists
    THEN [tree |-> t, disk |-> d, res |-> Raised("setVersion", "pom.xml not found")]
    ELSE LET pomContent == IF useTree /\ treeExists(t, d, "pom")
                           THEN treeRead(t, d, "pom").text ELSE d.pom.text
             replaced == ReplaceRegExp(pomContent, resolverWritePattern,
                                       <<Ref(1), Text(newVersion), Ref(2)>>)
         IN [tree |-> IF useTree THEN [t EXCEPT !.pom = PomFile(replaced)] ELSE t,
             disk |-> IF useTree THEN d ELSE [d EXCEPT !.pom = PomFile(replaced)],
             res  |-> [op |-> "setVersion", status |-> "ok", error |-> "",
                       log |-> "[Maven] Updated"]]

\* a writer that puts the version in front of the other fields
setVersionInPackageJson_VersionFirst(t, d, newVersion, useTree) ==
    IF ~d.pkg.exists
    THEN [tree |-> t, disk |-> d, res |-> Raised("setVersion", "package.json not found")]
    ELSE LET content == IF useTree /\ treeExists(t, d, "pkg")
                        THEN treeRead(t, d, "pkg") ELSE d.pkg
         IN IF ~content.valid
            THEN [tree |-> t, disk |-> d, res |-> Raised("setVersion", "SyntaxError")]
            ELSE LET newContent ==
                         JsonFile(<<[k |-> "version", v |-> newVersion]>>
                                     \o SelectSeq(content.fields,
                                                  LAMBDA f : f.k # "version"),
                                  TRUE)
                 IN [tree |-> IF useTree THEN [t EXCEPT !.pkg = newContent] ELSE t,
                     disk |-> IF useTree THEN d ELSE [d EXCEPT !.pkg = newContent],
                     res  |-> [op |-> "setVersion", status |-> "ok", error |-> "",
                               log |-> "[Package.json] Updated"]]

setVersionInPackageJson(t, d, newVersion, useTree) ==
    IF ~d.pkg.exists
    THEN [tree |-> t, disk |-> d, res |-> Raised("setVersion", "package.json not found")]
    ELSE LET content == IF useTree /\ treeExists(t, d, "pkg")
                        THEN treeRead(t, d, "pkg") ELSE d.pkg
         IN IF ~content.valid
            THEN [tree |-> t, disk |-> d, res |-> Raised("setVersion", "SyntaxError")]
            ELSE LET newContent == JsonFile(SetField(content.fields, "version", newVersion),
                                            TRUE)
                 IN [tree |-> IF useTree THEN [t EXCEPT !.pkg = newContent] ELSE t,
                     disk |-> IF useTree THEN d ELSE [d EXCEPT !.pkg = newContent],
                     res  |-> [op |-> "setVersion", status |-> "ok", error |-> "",
                               log |-> "[Package.json] Updated"]]

setVersion(t, d, newVersion, useTree) ==
    IF isMavenProject(d) THEN setVersionInPom(t, d, newVersion, useTree)
    ELSE setVersionInPackageJson(t, d, newVersion, useTree)

PackageJsons ==
    {NoJson, [exists |-> TRUE, valid |-> FALSE, fields |-> <<>>, pretty |-> FALSE],
     JsonFile(<<[k |-> "name", v |-> <<"x">>], [k |-> "version", v |-> <<"1">>]>>, TRUE),
     JsonFile(<<[k |-> "version", v |-> <<"1">>], [k |-> "name", v |-> <<"x">>]>>, FALSE),
     JsonFile(<<[k |-> "name", v |-> <<"x">>]>>, FALSE)}

InitResolver ==
    /\ pomXml = <<>>
    /\ projectName = <<>>
    /\ tree = [pom |-> NoFile, pkg |-> NoJson]
    /\ \E pom \in {NoFile} \cup {PomFile(text) : text \in ProjectPoms},
          pkg \in PackageJsons :
           disk = [pom |-> pom, pkg |-> pkg]
    /\ res = NoCall
    /\ plansDir = <<>>
    /\ options = <<>>
    /\ run = <<>>

GetVersion ==
    /\ res' = getVersion(disk)
    /\ UNCHANGED <<plansDir, options, run, pomXml, projectName, tree, disk>>

SetVersion ==
    \E v \in NewVersions, useTree \in BOOLEAN :
        LET r == setVersion(tree, disk, v, useTree) IN
        /\ tree' = r.tree
        /\ disk' = r.disk
        /\ res' = r.res @@ [ver |-> v, useTree |-> useTree]
        /\ UNCHANGED <<plansDir, options, run, pomXml, projectName>>

NextResolver == GetVersion \/ SetVersion

SpecResolver == InitResolver /\ [][NextResolver]_vars

\* ------------------------------------------------------- parseMavenCoords


\* the project names: every text of at most MaxNameLen characters, and null
Names == UNION {[1..n -> {"g", "a", ":"}] : n \in 0..MaxNameLen} \cup {Null}

InitCoords ==
    /\ pomXml = <<>>
    /\ projectName \in Names
    /\ tree = <<>>
    /\ disk = <<>>
    /\ res = NoCall
    /\ plansDir = <<>>
    /\ options = <<>>
    /\ run = <<>>

ParseMavenCoords ==
    /\ res = NoCall
    /\ res' = [op |-> "parseMavenCoords", out |-> parseMavenCoords(projectName)]
    /\ UNCHANGED <<plansDir, options, run, pomXml, projectName, tree, disk>>

NextCoords == ParseMavenCoords

SpecCoords == InitCoords /\ [][NextCoords]_vars

\* ------------------------------------------- generator.js: parseVersionPlans
\* A plan file is a text of tokens: the marker "---" is one token, a bump
\* keyword is one token, every other character is a token of its own.

\* /^---\s*\n([\s\S]*?)\n---/
frontMatterPattern ==
    <<Lit("---"), Greedy("ws", 0), Lit("\n"), Open(1), Lazy("any"), Close(1),
      Lit("\n"), Lit("---")>>

\* String.prototype.match of a pattern that begins with ^ and has no m flag:
\* the match starts at the first character or there is none

\* /['"]([^'"]+)['"]\s*:\s*(\w+)/
planLinePattern ==
    <<One("quote"), Open(1), Greedy("nquote", 1), Close(1), One("quote"),
      Greedy("ws", 0), Lit(":"), Greedy("ws", 0),
      Open(2), Greedy("word", 1), Close(2)>>

\* f.endsWith('.md'): the extension is the last token of a file name
endsWith(name, suffix) == Len(name) > 0 /\ name[Len(name)] = suffix

\* the loop over the lines of a header: specifierMap[projectName] = specifier.
\* The mapping is an object: its entries in insertion order.
RECURSIVE parsePlanLines(_, _)
parsePlanLines(lines, specifierMap) ==
    IF lines = <<>> THEN specifierMap
    ELSE LET line == Head(lines)
             lineMatch == Exec(planLinePattern, line)
         IN parsePlanLines(Tail(lines),
                IF lineMatch.ok
                THEN SetField(specifierMap, Group(line, lineMatch, 1),
                              Group(line, lineMatch, 2))
                ELSE specifierMap)

\* one iteration of the loop over the plan files
parsePlanFile(content, specifierMap) ==
    LET match == MatchAt(frontMatterPattern, 1, content, 1, 1, NoCaps) IN
    IF ~match.ok THEN specifierMap
    ELSE parsePlanLines(split(Group(content, match, 1), "\n"), specifierMap)

RECURSIVE parsePlanFiles(_, _)
parsePlanFiles(files, specifierMap) ==
    IF files = <<>> THEN specifierMap
    ELSE parsePlanFiles(Tail(files), parsePlanFile(Head(files).content, specifierMap))

\* readdirSync(versionPlansDir).filter(f => f.endsWith('.md'))
planFilesOf(dir) == SelectSeq(dir.files, LAMBDA f : endsWith(f.name, ".md"))

parseVersionPlans(dir) ==
    IF ~dir.exists THEN <<>>
    ELSE parsePlanFiles(planFilesOf(dir), <<>>)

\* sync-pom-version.js, release script: the loop that fills projectsToRelease.
\* projectsToRelease is a Map: Map.prototype.set keeps the place of a key that
\* is there and puts a new key last, as the assignment to an object does.
projectsToReleaseOf(planFiles) == parsePlanFiles(planFiles, <<>>)

\* the lines of the plan files
MarkerLine  == <<"---">>
PatchA      == <<"\"", "a", "\"", ":", " ", "patch">>
MinorA      == <<"'", "a", "'", ":", " ", "minor">>
MajorB      == <<"\"", "b", "\"", " ", ":", "major">>
VersionA    == <<"\"", "a", "\"", ":", " ", "1", ".", "0", ".", "1">>
NoteLine    == <<"x", " ", "x">>

\* lines.join('\n')
RECURSIVE Join(_)
Join(lines) ==
    IF lines = <<>> THEN <<>>
    ELSE IF Len(lines) = 1 THEN lines[1]
    ELSE lines[1] \o <<"\n">> \o Join(Tail(lines))


\* the k-th file of a listing is named after its place, with an extension
FileLetters == <<"p", "q", "r", "s">>
Extensions  == {".md", ".txt"}
PlanFile(k, ext, content) == [name |-> <<FileLetters[k], ext>>, content |-> content]

\* the listings of readdirSync: at most MaxFiles files, in any order of content
NoPlansDir == [exists |-> FALSE, files |-> <<>>]

\* no directory, and the directories of up to MaxFiles files with the given
\* extensions and contents
RECURSIVE ListingsUpTo(_, _, _)
ListingsUpTo(n, extensions, texts) ==
    {[k \in 1..n |-> PlanFile(k, e[k], c[k])] :
        e \in [1..n -> extensions], c \in [1..n -> texts]}
    \cup (IF n = 0 THEN {} ELSE ListingsUpTo(n - 1, extensions, texts))

PlansDirsOf(extensions, texts) ==
    {NoPlansDir} \cup {[exists |-> TRUE, files |-> fs] :
                          fs \in ListingsUpTo(MaxFiles, extensions, texts)}

PlansDirs == PlansDirsOf(Extensions, ({Join(ls) : ls \in
                                       {<<MarkerLine, PatchA, MarkerLine>>,
                                        <<MarkerLine, MinorA, MarkerLine>>,
                                        <<MarkerLine, MajorB, MarkerLine, NoteLine>>,
                                        <<MarkerLine, PatchA, MinorA, MarkerLine>>,
                                        <<MarkerLine, MinorA, MajorB, MarkerLine>>,
                                        <<MarkerLine, VersionA, MarkerLine>>,
                                        <<MarkerLine, <<"a", ":", " ", "patch">>, MarkerLine>>,
                                        <<MarkerLine, <<"#", " ", "\"", "a", "\"", ":", " ", "minor">>, MarkerLine>>,
                                        <<MarkerLine, PatchA, MarkerLine, MinorA>>,
                                        <<MarkerLine, MarkerLine, MinorA, MarkerLine>>,
                                        <<NoteLine, MarkerLine, PatchA, MarkerLine>>,
                                        <<MarkerLine, PatchA>>,
                                        <<PatchA>>,
                                        <<>>}}))

InitPlans ==
    /\ pomXml = <<>>
    /\ projectName = <<>>
    /\ tree = <<>>
    /\ disk = <<>>
    /\ res = NoCall
    /\ plansDir \in PlansDirs
    /\ options = <<>>
    /\ run = <<>>

ParseVersionPlans ==
    /\ res = NoCall
    /\ res' = [op |-> "parseVersionPlans", out |-> parseVersionPlans(plansDir)]
    /\ UNCHANGED <<plansDir, options, run, pomXml, projectName, tree, disk>>

NextPlans == ParseVersionPlans

SpecPlans == InitPlans /\ [][NextPlans]_vars

\* --------------------------------------------- generator.js: versionGenerator
\* The semver package is not part of the repository.  Its functions are taken
\* by their documentation, on versions MAJOR.MINOR.PATCH of one digit each and
\* the release types major, minor and patch; every other word is no release
\* type and every other text is no version.

\* a tree that holds no file of the project
NoTree == [pom |-> NoFile, pkg |-> NoJson]

DigitTokens == <<"0", "1", "2", "3">>
IsDigit(c) == \E i \in 1..Len(DigitTokens) : DigitTokens[i] = c
NumberOf(c) == (CHOOSE i \in 1..Len(DigitTokens) : DigitTokens[i] = c) - 1
DigitOf(n) == DigitTokens[n + 1]
Version(major, minor, patch) == <<DigitOf(major), ".", DigitOf(minor), ".", DigitOf(patch)>>

IsSemver(v) ==
    /\ Len(v) = 5
    /\ IsDigit(v[1]) /\ v[2] = "." /\ IsDigit(v[3]) /\ v[4] = "." /\ IsDigit(v[5])

\* a semver.valid that takes nothing for a version
semverValid_Never(v) == Null

\* semver.valid(v): the version, or null
semverValid(v) == IF IsSemver(v) THEN v ELSE Null

\* semver.inc(version, release): the incremented version, or null for a
\* version that is not valid or a release type that is not known
semverInc(version, release) ==
    IF ~IsSemver(version) THEN Null
    ELSE LET major == NumberOf(version[1])
             minor == NumberOf(version[3])
             patch == NumberOf(version[5])
         IN CASE release = <<"major">> -> Version(major + 1, 0, 0)
              [] release = <<"minor">> -> Version(major, minor + 1, 0)
              [] release = <<"patch">> -> Version(major, minor, patch + 1)
              [] OTHER -> Null

\* the loop over the projects from the k-th on; t is the tree so far
RECURSIVE versionGeneratorFrom(_, _, _, _, _, _)
\* a loop that sets the version of every project it comes to
versionGeneratorFrom_AlwaysWrites(t, d, opts, specifierMap, k, results) ==
    IF k > Len(opts.projects)
    THEN [tree |-> t,
          res |-> [op |-> "versionGenerator", status |-> "ok", error |-> "",
                   results |-> results]]
    ELSE
    LET name == opts.projects[k]
        fromPlan == FieldOf(specifierMap, name)
        projectSpecifier ==
            IF opts.specifierSource = "version-plans"
            THEN (IF fromPlan = <<"undefined">> THEN <<>> ELSE fromPlan)
            ELSE opts.specifier
        read == IF opts.currentVersionResolver = "disk"
                THEN getVersion(d[name])
                ELSE Raised("getVersion", "Only disk resolver is supported")
        threw(error) == [tree |-> t,
                         res |-> [op |-> "versionGenerator", status |-> "error",
                                  error |-> error, results |-> results]]
    IN
    IF read.status = "error" THEN threw(read.error)
    ELSE
    LET currentVersion == read.out
        newVersion ==
            IF semverValid(projectSpecifier) # Null THEN projectSpecifier
            ELSE IF projectSpecifier # <<>>
            THEN semverInc(currentVersion, projectSpecifier)
            ELSE currentVersion
    IN
    IF Falsy(newVersion) /\ projectSpecifier # <<>>
    THEN threw("Could not calculate new version")
    ELSE
    LET written == setVersion(t[name], d[name],
                              IF Falsy(newVersion) THEN currentVersion
                              ELSE newVersion, TRUE)
    IN
    IF written.res.status = "error" THEN threw(written.res.error)
    ELSE versionGeneratorFrom([t EXCEPT ![name] = written.tree], d, opts,
             specifierMap, k + 1,
             SetField(results, name,
                      [currentVersion |-> currentVersion,
                       newVersion |-> IF Falsy(newVersion) THEN currentVersion
                                      ELSE newVersion]))

\* the loop as the generator runs it (generator.js 77-139)
versionGeneratorFrom(t, d, opts, specifierMap, k, results) ==
    IF k > Len(opts.projects)
    THEN [tree |-> t,
          res |-> [op |-> "versionGenerator", status |-> "ok", error |-> "",
                   results |-> results]]
    ELSE
    LET name == opts.projects[k]
        fromPlan == FieldOf(specifierMap, name)
        projectSpecifier ==
            IF opts.specifierSource = "version-plans"
            THEN (IF fromPlan = <<"undefined">> THEN <<>> ELSE fromPlan)
            ELSE opts.specifier
        read == IF opts.currentVersionResolver = "disk"
                THEN getVersion(d[name])
                ELSE Raised("getVersion", "Only disk resolver is supported")
        threw(error) == [tree |-> t,
                         res |-> [op |-> "versionGenerator", status |-> "error",
                                  error |-> error, results |-> results]]
    IN
    IF read.status = "error" THEN threw(read.error)
    ELSE
    LET currentVersion == read.out
        newVersion ==
            IF semverValid(projectSpecifier) # Null THEN projectSpecifier
            ELSE IF projectSpecifier # <<>>
            THEN semverInc(currentVersion, projectSpecifier)
            ELSE currentVersion
    IN
    IF Falsy(newVersion) /\ projectSpecifier # <<>>
    THEN threw("Could not calculate new version")
    ELSE
    LET written == IF projectSpecifier # <<>> /\ newVersion # currentVersion
                   THEN setVersion(t[name], d[name], newVersion, TRUE)
                   ELSE [tree |-> t[name], disk |-> d[name],
                         res |-> [status |-> "ok"]]
    IN
    IF written.res.status = "error" THEN threw(written.res.error)
    ELSE versionGeneratorFrom([t EXCEPT ![name] = written.tree], d, opts,
             specifierMap, k + 1,
             SetField(results, name,
                      [currentVersion |-> currentVersion,
                       newVersion |-> IF Falsy(newVersion) THEN currentVersion
                                      ELSE newVersion]))

versionGenerator(t, d, dir, opts) ==
    IF Len(opts.projects) = 0
    THEN [tree |-> t,
          res |-> [op |-> "versionGenerator", status |-> "error",
                   error |-> "No projects provided to version generator",
                   results |-> <<>>]]
    ELSE versionGeneratorFrom(t, d, opts,
             IF opts.specifierSource = "version-plans"
             THEN parseVersionPlans(dir) ELSE <<>>,
             1, <<>>)


\* the projects of the workspace
GeneratorProjects == {<<"a">>, <<"b">>}

\* the runs of the generator: the projects handed over by Nx are at most
\* MaxProjects, each one once; each project directory holds a pom.xml with a
\* semantic version, a pom.xml with a version that is none, a package.json or
\* nothing; the plans hold a keyword, an explicit version, an unknown word
InitGenerator ==
    /\ pomXml = <<>>
    /\ projectName = <<>>
    /\ tree = [n \in GeneratorProjects |-> NoTree]
    /\ disk \in [GeneratorProjects -> ({[pom |-> PomFile(Declaration(<<"g">>, <<"a">>, FALSE, Version(1, 0, 0), <<"\n">>)), pkg |-> NoJson],
                                        [pom |-> PomFile(Declaration(<<"g">>, <<"a">>, FALSE, <<"1">>, <<"\n">>)), pkg |-> NoJson],
                                        [pom |-> NoFile, pkg |-> JsonFile(<<[k |-> "name", v |-> <<"x">>],
                                                                            [k |-> "version", v |-> Version(1, 0, 1)]>>, TRUE)],
                                        [pom |-> NoFile, pkg |-> NoJson]})]
    /\ res = NoCall
    /\ plansDir \in (PlansDirsOf({".md"},
                      {Join(<<MarkerLine, PatchA, MarkerLine>>),
                       Join(<<MarkerLine, VersionA,
                              <<"\"", "b", "\"", ":", " ", "bogus">>, MarkerLine>>),
                       Join(<<MarkerLine, MinorA, MajorB, MarkerLine>>)}))
    /\ options \in ([specifier : {<<>>, <<"patch">>, <<"bogus">>, Version(1, 0, 1)},
                     specifierSource : {"version-plans", "prompt"},
                     currentVersionResolver : {"disk", "registry"},
                     projects : {ps \in UNION {[1..n -> GeneratorProjects] : n \in 0..MaxProjects} :
                                    \A i, j \in 1..Len(ps) : i # j => ps[i] # ps[j]}])
    /\ run = <<>>

VersionGenerator ==
    /\ res = NoCall
    /\ LET r == versionGenerator(tree, disk, plansDir, options) IN
       /\ tree' = r.tree
       /\ res' = r.res
    /\ UNCHANGED <<plansDir, options, run, pomXml, projectName, disk>>

NextGenerator == VersionGenerator

SpecGenerator == InitGenerator /\ [][NextGenerator]_vars

\* ------------------------------------ sync-pom-version.js: the release script
\* The script runs from top to bottom; run.pc is the step it has completed.
\* The commands it starts with execSync are outside the repository: each one
\* either returns or throws.  "nx release version" rewrites the version of the
\* manifests of the planned projects, as setVersion does on disk.

NoDir  == [exists |-> FALSE, pom |-> NoFile, pkg |-> NoJson]


NotExited == 0 - 1

\* the runs of the script: the directory apps/<project> is absent, or holds a
\* pom.xml, a package.json, or a package.json without version
InitRelease ==
    /\ pomXml = <<>>
    /\ projectName = <<>>
    /\ tree = <<>>
    /\ disk \in [{<<"a">>, <<"b">>} -> ({NoDir,
                                         [exists |-> TRUE, pkg |-> NoJson,
                                          pom |-> PomFile(Declaration(<<"g">>, <<"a">>, FALSE, <<"1">>, <<"\n">>))],
                                         [exists |-> TRUE, pom |-> NoFile,
                                          pkg |-> JsonFile(<<[k |-> "name", v |-> <<"x">>],
                                                             [k |-> "version", v |-> <<"1">>]>>, TRUE)],
                                         [exists |-> TRUE, pom |-> NoFile,
                                          pkg |-> JsonFile(<<[k |-> "name", v |-> <<"x">>]>>, TRUE)]})]
    /\ res = NoCall
    /\ plansDir \in (PlansDirsOf(Extensions,
                      {Join(<<MarkerLine, PatchA, MarkerLine>>),
                       Join(<<MarkerLine, MinorA, MajorB, MarkerLine>>),
                       Join(<<NoteLine>>)}))
    /\ options \in [isDryRun : BOOLEAN]
    /\ run = [pc |-> "start", exit |-> NotExited, steps |-> <<>>, failed |-> <<>>,
              planFiles |-> <<>>, projectsToRelease |-> <<>>,
              updatedVersions |-> <<>>, executed |-> <<>>, messages |-> <<>>,
              startFiles |-> plansDir.files, startDisk |-> disk]

\* process.exit(1) after a message, or an exception that nothing catches
Exit1(step, message) ==
    [run EXCEPT !.pc = "exited", !.exit = 1,
                !.failed = Append(@, step), !.messages = Append(@, message)]

Completed(r, step) == [r EXCEPT !.pc = step, !.steps = Append(@, step)]

\* Steps 1 and 2: find the plan files and parse them
LoadVersionPlans ==
    /\ run.pc = "start"
    /\ LET planFiles == planFilesOf(plansDir)
           projectsToRelease == projectsToReleaseOf(planFiles)
       IN run' =
            IF ~plansDir.exists
            THEN Exit1("plansLoaded", "No version plans directory found")
            ELSE IF Len(planFiles) = 0
            THEN Exit1("plansLoaded", "No version plans found")
            ELSE IF Len(projectsToRelease) = 0
            THEN [Exit1("plansLoaded", "No projects found in version plans")
                     EXCEPT !.planFiles = planFiles]
            ELSE [Completed(run, "plansLoaded")
                     EXCEPT !.planFiles = planFiles,
                            !.projectsToRelease = projectsToRelease]
    /\ UNCHANGED <<plansDir, options, pomXml, projectName, tree, disk, res>>

\* what "nx release version" writes: the new version in the manifest of every
\* planned project that has a directory with a manifest
VersionsApplied(d, projectsToRelease, newVersion) ==
    [p \in DOMAIN d |->
        IF HasField(projectsToRelease, p) /\ d[p].exists
        THEN setVersion(NoTree, d[p], newVersion, FALSE).disk
        ELSE d[p]]

\* the step that goes on after a version command that threw
ApplyVersionChanges_IgnoresError ==
    /\ run.pc = "plansLoaded"
    /\ IF options.isDryRun
       THEN /\ run' = Completed(run, "versionsApplied")
            /\ disk' = disk
       ELSE \E ok \in BOOLEAN, newVersion \in NewVersions :
              /\ LET applied == VersionsApplied(disk, run.projectsToRelease, newVersion)
                 IN disk' \in (IF ok THEN {applied} ELSE {disk, applied})
              /\ run' = IF ok
                        THEN [Completed(run, "versionsApplied")
                                 EXCEPT !.executed = Append(@, "nx release version")]
                        ELSE [Completed(run, "versionsApplied")
                                 EXCEPT !.executed = Append(@, "nx release version"),
                                        !.failed = Append(@, "versionsApplied")]
    /\ UNCHANGED <<plansDir, options, pomXml, projectName, tree, res>>

\* Step 3: apply the version changes.  A command that throws may have written
\* manifests before it did.
ApplyVersionChanges ==
    /\ run.pc = "plansLoaded"
    /\ IF options.isDryRun
       THEN /\ run' = Completed(run, "versionsApplied")
            /\ disk' = disk
       ELSE \E ok \in BOOLEAN, newVersion \in NewVersions :
              /\ LET applied == VersionsApplied(disk, run.projectsToRelease, newVersion)
                 IN disk' \in (IF ok THEN {applied} ELSE {disk, applied})
              /\ run' = IF ok
                        THEN [Completed(run, "versionsApplied")
                                 EXCEPT !.executed = Append(@, "nx release version")]
                        ELSE [Exit1("versionsApplied", "Error applying version changes")
                                 EXCEPT !.executed = Append(@, "nx release version")]
    /\ UNCHANGED <<plansDir, options, pomXml, projectName, tree, res>>

\* the project root of the script: apps/<name>; the names of the plans here
\* have no "@selfcare/infra-" prefix, so the infra directory is never looked up
projectRootOf(d, name) == IF name \in DOMAIN d /\ d[name].exists THEN d[name] ELSE NoDir

\* the version the script reads for one project: <<>> stands for no version
\* (no root, no match, no version field, or an exception that is caught)
readUpdatedVersion(d, name) ==
    LET projectRoot == projectRootOf(d, name) IN
    IF ~projectRoot.exists THEN <<>>
    ELSE IF projectRoot.pom.exists
    THEN LET versionMatch == Exec(resolverReadPattern, projectRoot.pom.text) IN
         IF versionMatch.ok THEN Group(projectRoot.pom.text, versionMatch, 1) ELSE <<>>
    ELSE IF projectRoot.pkg.exists
    THEN IF ~projectRoot.pkg.valid THEN <<>>
         ELSE LET version == FieldOf(projectRoot.pkg.fields, "version") IN
              IF version = <<"undefined">> THEN <<>> ELSE version
    ELSE <<>>

RECURSIVE readUpdatedVersions(_, _, _)
readUpdatedVersions(d, projects, updatedVersions) ==
    IF projects = <<>> THEN updatedVersions
    ELSE LET version == readUpdatedVersion(d, Head(projects).k) IN
         readUpdatedVersions(d, Tail(projects),
             IF version # <<>> THEN SetField(updatedVersions, Head(projects).k, version)
             ELSE updatedVersions)

\* Step 4: read the updated versions from disk
ReadUpdatedVersions ==
    /\ run.pc = "versionsApplied"
    /\ run' = [Completed(run, "versionsRead")
                  EXCEPT !.updatedVersions =
                             readUpdatedVersions(disk, run.projectsToRelease, <<>>)]
    /\ UNCHANGED <<plansDir, options, pomXml, projectName, tree, disk, res>>

\* Step 5: one changelog command for each project with a version; a command
\* that throws is reported as a warning and the loop goes on
GenerateChangelogs ==
    /\ run.pc = "versionsRead"
    /\ IF options.isDryRun
       THEN run' = Completed(run, "changelogsGenerated")
       ELSE \E threw \in SUBSET {run.updatedVersions[i].k :
                                    i \in 1..Len(run.updatedVersions)} :
              run' = [Completed(run, "changelogsGenerated")
                         EXCEPT !.executed = @ \o
                                    [i \in 1..Len(run.updatedVersions) |-> "nx release changelog"],
                                !.messages = @ \o
                                    [i \in 1..Len(SelectSeq(run.updatedVersions,
                                                   LAMBDA e : e.k \in threw)) |->
                                        "Changelog generation warning"]]
    /\ UNCHANGED <<plansDir, options, pomXml, projectName, tree, disk, res>>

\* the directory without the files of the given names
Unlinked(dir, names) ==
    [dir EXCEPT !.files = SelectSeq(@, LAMBDA f :
                              \A i \in 1..Len(names) : names[i] # f.name)]

\* a deletion step that does not look at the dry-run flag
DeleteVersionPlans_IgnoresDryRun ==
    /\ run.pc = "changelogsGenerated"
    /\ \E n \in 0..Len(run.planFiles) :
          /\ plansDir' = Unlinked(plansDir,
                             [i \in 1..n |-> run.planFiles[i].name])
          /\ run' = IF n = Len(run.planFiles)
                    THEN Completed(run, "plansDeleted")
                    ELSE Exit1("plansDeleted", "uncaught exception")
    /\ UNCHANGED <<options, pomXml, projectName, tree, disk, res>>

\* Step 6: delete the plan files, one unlinkSync after the other; an unlinkSync
\* that throws ends the process
DeleteVersionPlans ==
    /\ run.pc = "changelogsGenerated"
    /\ IF options.isDryRun
       THEN /\ run' = Completed(run, "plansDeleted")
            /\ plansDir' = plansDir
       ELSE \E n \in 0..Len(run.planFiles) :
              /\ plansDir' = Unlinked(plansDir,
                                 [i \in 1..n |-> run.planFiles[i].name])
              /\ run' = IF n = Len(run.planFiles)
                        THEN Completed(run, "plansDeleted")
                        ELSE Exit1("plansDeleted", "uncaught exception")
    /\ UNCHANGED <<options, pomXml, projectName, tree, disk, res>>

\* Step 7: regenerate package-lock.json
RegeneratePackageLock ==
    /\ run.pc = "plansDeleted"
    /\ IF options.isDryRun
       THEN run' = Completed(run, "lockfileRefreshed")
       ELSE \E ok \in BOOLEAN :
              run' = IF ok
                     THEN [Completed(run, "lockfileRefreshed")
                              EXCEPT !.executed = Append(@, "npm install")]
                     ELSE [Exit1("lockfileRefreshed", "Error regenerating package-lock.json")
                              EXCEPT !.executed = Append(@, "npm install")]
    /\ UNCHANGED <<plansDir, options, pomXml, projectName, tree, disk, res>>

\* the end of a script that has no lockfile step
ReleaseDone_SkipsLockfile ==
    /\ run.pc \in {"plansDeleted", "lockfileRefreshed"}
    /\ run' = [Completed(run, "done")
                  EXCEPT !.pc = "exited", !.exit = 0,
                         !.messages = Append(@, "Release script completed successfully")]
    /\ UNCHANGED <<plansDir, options, pomXml, projectName, tree, disk, res>>

\* Done: the summary and process.exit(0)
ReleaseDone ==
    /\ run.pc = "lockfileRefreshed"
    /\ run' = [Completed(run, "done")
                  EXCEPT !.pc = "exited", !.exit = 0,
                         !.messages = Append(@, "Release script completed successfully")]
    /\ UNCHANGED <<plansDir, options, pomXml, projectName, tree, disk, res>>

NextRelease ==
    \/ LoadVersionPlans
    \/ ApplyVersionChanges
    \/ ReadUpdatedVersions
    \/ GenerateChangelogs
    \/ DeleteVersionPlans
    \/ RegeneratePackageLock
    \/ ReleaseDone

SpecRelease == InitRelease /\ [][NextRelease]_vars

\* ------------------------------- sync-pom-version.js: the single-project sync
\* /(<version>)([\d\.\-a-zA-Z]+)(<\/version>)/
versionRegex ==
    <<Open(1)>> \o T("<version>") \o <<Close(1)>>
    \o <<Open(2), Greedy("version", 1), Close(2)>>
    \o <<Open(3)>> \o T("</version>") \o <<Close(3)>>

\* updatePomVersion(projectRoot, newVersion): the directory afterwards and
\* the line that is logged
updatePomVersion(d, newVersion) ==
    IF ~d.pom.exists THEN [dir |-> d, log |-> "No pom.xml found"]
    ELSE LET pomContent == d.pom.text
             match == Exec(versionRegex, pomContent)
         IN IF match.ok
            THEN [dir |-> [d EXCEPT !.pom = PomFile(
                               ReplaceMatch(pomContent, match,
                                   <<Ref(1), Text(newVersion), Ref(3)>>))],
                  log |-> "Updated pom.xml"]
            ELSE [dir |-> d, log |-> "Could not find <version> tag in pom.xml"]

\* the script for the package.json of directory d; given says whether the
\* path argument is there.  An exception that nothing catches ends the process
\* with exit code 1, the end of the script with exit code 0.
syncPomVersion(given, d) ==
    IF ~given THEN [dir |-> d, exit |-> 1, log |-> "Usage"]
    ELSE IF ~d.pkg.exists THEN [dir |-> d, exit |-> 1, log |-> "uncaught exception"]
    ELSE IF ~d.pkg.valid THEN [dir |-> d, exit |-> 1, log |-> "uncaught exception"]
    ELSE LET version == FieldOf(d.pkg.fields, "version")
             updated == updatePomVersion(d, version)
         IN [dir |-> updated.dir, exit |-> 0, log |-> updated.log]

\* ------------------------------------------- sync-all-poms.js: the batch sync

\* the entries of the apps directory: a file, and directories.  The pom.xml of
\* an app: none, the project alone, a parent entry before the project, a
\* dependency after it, a project without version.  Its package.json: none,
\* one that does not parse, with and without a version field.
AppEntries ==
    [isDirectory : {TRUE},
     pom : {NoFile,
            PomFile(Declaration(<<"g">>, <<"a">>, FALSE, <<"1">>, <<"\n">>)),
            PomFile(ParentBlock(<<"g">>, <<"b">>, <<"2">>, <<"\n">>)
                    \o Declaration(<<>>, <<"a">>, FALSE, <<"1">>, <<"\n">>)),
            PomFile(Declaration(<<"g">>, <<"a">>, FALSE, <<"1">>, <<"\n">>)
                    \o DependencyBlock(<<"h">>, <<"b">>, <<"2">>, <<"\n">>)),
            PomFile(Declaration(<<"g">>, <<"a">>, FALSE, NoVersion, <<"\n">>))},
     pkg : {NoJson,
            [exists |-> TRUE, valid |-> FALSE, fields |-> <<>>, pretty |-> FALSE],
            JsonFile(<<[k |-> "name", v |-> <<"x">>],
                       [k |-> "version", v |-> <<"1", ".", "1">>]>>, TRUE),
            JsonFile(<<[k |-> "name", v |-> <<"x">>]>>, TRUE)}]
    \cup {[isDirectory |-> FALSE, pom |-> NoFile, pkg |-> NoJson]}

RECURSIVE AppListingsUpTo(_)
AppListingsUpTo(n) ==
    [1..n -> AppEntries] \cup (IF n = 0 THEN {} ELSE AppListingsUpTo(n - 1))

\* options.script is the script that is run; options.app is the entry whose
\* package.json path is the argument of sync-pom-version.js, 0 without argument
InitSync ==
    /\ pomXml = <<>>
    /\ projectName = <<>>
    /\ tree = <<>>
    /\ disk \in AppListingsUpTo(MaxApps)
    /\ res = NoCall
    /\ plansDir = <<>>
    /\ options \in [script : {"sync-all-poms"}, app : {0}]
                   \cup [script : {"sync-pom-version"}, app : 0..Len(disk)]
    /\ run = [pc |-> "start", exit |-> NotExited, next |-> 1,
              syncedCount |-> 0, skippedCount |-> 0,
              synced |-> <<>>, messages |-> <<>>, startDisk |-> disk]

\* one run of sync-pom-version.js
SyncPomVersion ==
    /\ options.script = "sync-pom-version"
    /\ run.pc = "start"
    /\ LET given == options.app # 0
           r == syncPomVersion(given, IF given THEN disk[options.app]
                                      ELSE [isDirectory |-> FALSE, pom |-> NoFile,
                                            pkg |-> NoJson])
       IN /\ disk' = IF given THEN [disk EXCEPT ![options.app] = r.dir] ELSE disk
          /\ run' = [run EXCEPT !.pc = "exited", !.exit = r.exit,
                                !.messages = Append(@, r.log)]
    /\ UNCHANGED <<plansDir, options, pomXml, projectName, tree, res>>

\* one turn of the loop of sync-all-poms.js, for the next entry of the apps
\* directory; the command it starts is sync-pom-version.js, and execSync throws
\* when that ends with an exit code other than 0
SyncNextApp ==
    /\ options.script = "sync-all-poms"
    /\ run.pc = "start"
    /\ run.next <= Len(disk)
    /\ LET app == disk[run.next]
           r == syncPomVersion(TRUE, app)
       IN IF ~app.isDirectory
          THEN /\ disk' = disk
               /\ run' = [run EXCEPT !.next = @ + 1]
          ELSE IF app.pkg.exists /\ app.pom.exists
          THEN /\ disk' = [disk EXCEPT ![run.next] = r.dir]
               /\ run' = IF r.exit = 0
                         THEN [run EXCEPT !.next = @ + 1, !.syncedCount = @ + 1,
                                          !.synced = Append(@, run.next),
                                          !.messages = Append(@, r.log)]
                         ELSE [run EXCEPT !.next = @ + 1,
                                          !.messages = @ \o <<r.log, "Failed to sync">>]
          ELSE /\ disk' = disk
               /\ run' = IF ~app.pom.exists
                         THEN [run EXCEPT !.next = @ + 1, !.skippedCount = @ + 1,
                                          !.messages = Append(@, "Skipped")]
                         ELSE [run EXCEPT !.next = @ + 1]
    /\ UNCHANGED <<plansDir, options, pomXml, projectName, tree, res>>

\* the summary of sync-all-poms.js and the end of the script
SyncAllDone ==
    /\ options.script = "sync-all-poms"
    /\ run.pc = "start"
    /\ run.next > Len(disk)
    /\ run' = [run EXCEPT !.pc = "exited", !.exit = 0,
                          !.messages = Append(@, "Synchronized")]
    /\ UNCHANGED <<plansDir, options, pomXml, projectName, tree, disk, res>>

NextSync ==
    \/ SyncPomVersion
    \/ SyncNextApp
    \/ SyncAllDone

SpecSync == InitSync /\ [][NextSync]_vars

\* ------------------------------------------------ the structure of a manifest
\* What the claims say about a manifest is said of its element structure, read
\* off the tokens without any of the patterns above.

\* index of the first token equal to tag at or after i, 0 when there is none
RECURSIVE IndexOfToken(_, _, _)
IndexOfToken(txt, tag, i) ==
    IF i > Len(txt) THEN 0
    ELSE IF txt[i] = tag THEN i ELSE IndexOfToken(txt, tag, i + 1)

CloseOf(open) == IF open = "<dependency>" THEN "</dependency>" ELSE "</parent>"

\* the <dependency> and <parent> entries of a manifest, in order, as
\* [kind, from, to]: txt[from] is the opening tag and txt[to] the closing one
RECURSIVE EntriesFrom(_, _)
EntriesFrom(txt, i) ==
    IF i > Len(txt) THEN <<>>
    ELSE IF txt[i] \in {"<dependency>", "<parent>"}
         THEN LET e == IndexOfToken(txt, CloseOf(txt[i]), i) IN
              <<[kind |-> txt[i], from |-> i, to |-> e]>> \o EntriesFrom(txt, e + 1)
         ELSE EntriesFrom(txt, i + 1)

Entries(txt) == EntriesFrom(txt, 1)
EntryText(txt, e) == SubSeq(txt, e.from, e.to)

\* the text of the first element open..close of a block, <<"absent">> without one
ElemText(block, open, close) ==
    LET i == IndexOfToken(block, open, 1) IN
    IF i = 0 THEN <<"absent">>
    ELSE Slice(block, i + 1, IndexOfToken(block, close, i))

GroupOf(block)    == ElemText(block, "<groupId>", "</groupId>")
ArtifactOf(block) == ElemText(block, "<artifactId>", "</artifactId>")
VersionOf(block)  == ElemText(block, "<version>", "</version>")

\* the version texts of all entries, in order
EntryVersions(txt) ==
    LET es == Entries(txt) IN [k \in 1..Len(es) |-> VersionOf(EntryText(txt, es[k]))]

\* the indices of the dependency entries that hold both coordinates of c
DependenciesOn(txt, c) ==
    LET es == Entries(txt) IN
    {k \in 1..Len(es) : /\ es[k].kind = "<dependency>"
                        /\ GroupOf(EntryText(txt, es[k])) = c.groupId
                        /\ ArtifactOf(EntryText(txt, es[k])) = c.artifactId}

NumDependencies(txt) ==
    LET es == Entries(txt) IN Cardinality({k \in 1..Len(es) : es[k].kind = "<dependency>"})

\* the tokens outside of every entry: the project's own declaration
RECURSIVE TopLevelFrom(_, _)
TopLevelFrom(txt, i) ==
    IF i > Len(txt) THEN <<>>
    ELSE IF txt[i] \in {"<dependency>", "<parent>"}
         THEN TopLevelFrom(txt, IndexOfToken(txt, CloseOf(txt[i]), i) + 1)
         ELSE <<txt[i]>> \o TopLevelFrom(txt, i + 1)

TopLevel(txt) == TopLevelFrom(txt, 1)

\* the manifest declares the project c itself, outside of every entry
DeclaresProject(txt, c) ==
    /\ GroupOf(TopLevel(txt)) = c.groupId
    /\ ArtifactOf(TopLevel(txt)) = c.artifactId

\* some entry holds both coordinates of c
EntryOn(txt, c) ==
    \E k \in 1..Len(Entries(txt)) :
        /\ GroupOf(EntryText(txt, Entries(txt)[k])) = c.groupId
        /\ ArtifactOf(EntryText(txt, Entries(txt)[k])) = c.artifactId

\* b is a with the text of exactly one version element replaced by v
OneVersionTextReplaced(a, b, v) ==
    \E i \in 1..Len(a) :
        /\ a[i] = "<version>"
        /\ LET j == IndexOfToken(a, "</version>", i) IN
           /\ j > i + 1
           /\ \A k \in (i + 1)..(j - 1) : ~IsTag(a[k])
           /\ b = SubSeq(a, 1, i) \o v \o SubSeq(a, j, Len(a))

\* txt with the version text of entry number k replaced by v
WithEntryVersion(txt, k, v) ==
    LET e == Entries(txt)[k]
        i == IndexOfToken(txt, "<version>", e.from)
        j == IndexOfToken(txt, "</version>", i)
    IN SubSeq(txt, 1, i) \o v \o SubSeq(txt, j, Len(txt))

Called(op) == res.op = op

\* ------------------------------------------------------------------ claims

\* C1: when the project-version pattern for the coordinate matches the
\* manifest, updateProjectVersionInPom returns a text on which
\* readProjectVersionFromPom returns the new version, and that text is the
\* input with the text content of exactly one version element replaced.
C1_RoundTrip ==
    (Called("updateProjectVersionInPom")
       /\ readProjectVersionFromPom(pomXml, res.coords) # Null)
    => /\ res.out # Null
       /\ readProjectVersionFromPom(res.out, res.coords) = res.ver
       /\ OneVersionTextReplaced(pomXml, res.out, res.ver)

\* the manifest declares the project with a version next to a parent or
\* dependency entry, the pattern matched and the version was changed
C1_Witness ==
    /\ Called("updateProjectVersionInPom")
    /\ readProjectVersionFromPom(pomXml, res.coords) # Null
    /\ DeclaresProject(pomXml, res.coords)
    /\ VersionOf(TopLevel(pomXml)) # <<"absent">>
    /\ Len(Entries(pomXml)) > 0
    /\ res.out # pomXml
    /\ readProjectVersionFromPom(res.out, res.coords) = res.ver

\* C2: updateProjectVersionInPom leaves the version text of every dependency
\* and parent entry as it was, also when an entry has the artifactId or the
\* version text of the project.  Stated for the manifests that declare the
\* project outside of every entry and hold no entry with both its coordinates.
C2_EntriesKept ==
    (/\ Called("updateProjectVersionInPom")
     /\ res.out # Null
     /\ DeclaresProject(pomXml, res.coords)
     /\ ~EntryOn(pomXml, res.coords))
    => EntryVersions(res.out) = EntryVersions(pomXml)

\* C3: with several dependency blocks of which exactly one holds the target
\* coordinates, and that one with a version, updateDependencyVersionInPom
\* changes the version text of that block and nothing else.
C3_OnlyMatchingBlock ==
    (/\ Called("updateDependencyVersionInPom")
     /\ NumDependencies(pomXml) >= 2
     /\ Cardinality(DependenciesOn(pomXml, res.coords)) = 1
     /\ \A k \in DependenciesOn(pomXml, res.coords) :
            VersionOf(EntryText(pomXml, Entries(pomXml)[k])) # <<"absent">>)
    => \A k \in DependenciesOn(pomXml, res.coords) :
           res.out = WithEntryVersion(pomXml, k, res.ver)

\* C4: when the dependency block of the target coordinates has no version
\* element, updateDependencyVersionInPom returns its input unchanged.
C4_NoVersionUnchanged ==
    (/\ Called("updateDependencyVersionInPom")
     /\ DependenciesOn(pomXml, res.coords) # {}
     /\ \A k \in DependenciesOn(pomXml, res.coords) :
            VersionOf(EntryText(pomXml, Entries(pomXml)[k])) = <<"absent">>)
    => res.out = pomXml

\* C5: when no dependency block holds both the target groupId and the target
\* artifactId, updateDependencyVersionInPom returns null.
C5_NotFound ==
    (Called("updateDependencyVersionInPom") /\ DependenciesOn(pomXml, res.coords) = {})
    => res.out = Null

\* the parts of a project name around its first ":"
FirstColon(n)   == IF n = Null THEN 0 ELSE IndexOfToken(n, ":", 1)
Before(n)       == SubSeq(n, 1, FirstColon(n) - 1)
After(n)        == SubSeq(n, FirstColon(n) + 1, Len(n))
NumColons(n) == Cardinality({i \in 1..Len(n) : n[i] = ":"})

\* C9: parseMavenCoords returns null for a name without ":", with nothing
\* before the first ":" or with nothing after it, and otherwise a pair; "g:a"
\* gives (g, a) and "ga" gives null.
C9_NullOrPair ==
    Called("parseMavenCoords")
    => /\ (\/ FirstColon(projectName) = 0
           \/ Before(projectName) = <<>>
           \/ After(projectName) = <<>>) <=> (res.out = NoCoords)
       /\ projectName = <<"g", ":", "a">>
             => res.out = [groupId |-> <<"g">>, artifactId |-> <<"a">>]
       /\ projectName = <<"g", "a">> => res.out = NoCoords

\* C10: for a name with two or more ":" the namespace is the text before the
\* first ":" and the name is all of the text after it, so that
\* namespace + ":" + name is the input.
C10_SplitOnFirst ==
    (/\ Called("parseMavenCoords")
     /\ projectName # Null
     /\ NumColons(projectName) >= 2
     /\ Before(projectName) # <<>>
     /\ After(projectName) # <<>>)
    => /\ res.out # NoCoords
       /\ res.out.groupId = Before(projectName)
       /\ res.out.artifactId = After(projectName)
       /\ res.out.groupId \o <<":">> \o res.out.artifactId = projectName

\* the first token that is not white space after position i is tag
RECURSIVE FollowedBy(_, _, _)
FollowedBy(txt, i, tag) ==
    IF i + 1 > Len(txt) THEN FALSE
    ELSE IF IsWs(txt[i + 1]) THEN FollowedBy(txt, i + 1, tag)
    ELSE txt[i + 1] = tag

\* an artifactId element immediately followed by a version element
HasArtifactThenVersion(txt) ==
    \E i \in 1..Len(txt) : txt[i] = "</artifactId>" /\ FollowedBy(txt, i, "<version>")

\* C6: when the coordinate-scoped pattern does not match a manifest of
\* manifestsToUpdate, updateProjectVersion throws, that manifest is not written
\* and no success message is logged for it.
C6_FailsWithoutWrite ==
    [][\A m \in TreePaths :
          (/\ res'.op = "updateProjectVersion"
           /\ readProjectVersionFromPom(tree[m], parseMavenCoords(projectName)) = Null)
          => /\ res'.status = "error"
             /\ tree'[m] = tree[m]]_vars

\* the first manifest was written and the second one made the call throw
C6_Witness ==
    /\ Called("updateProjectVersion")
    /\ res.status = "error"
    /\ res.error = "version not updated"
    /\ res.at = DistPath
    /\ readProjectVersionFromPom(tree[SourcePath], parseMavenCoords(projectName)) = res.ver

\* the pom.xml text that a setVersion call with these arguments rewrites
PomRead(t, d, useTree) == IF useTree /\ t.pom.exists THEN t.pom.text ELSE d.pom.text
\* the pom.xml text it wrote
PomWritten(t, d, useTree) == IF useTree THEN t.pom.text ELSE d.pom.text

\* C7: setVersion on a directory whose pom.xml has no artifactId element
\* immediately followed by a version element fails with an error.
C7_PatternNotMatchedFails ==
    [][(/\ res'.op = "setVersion"
        /\ disk.pom.exists
        /\ ~HasArtifactThenVersion(PomRead(tree, disk, res'.useTree)))
       => res'.status = "error"]_vars

\* C8: setVersion on a pom.xml that declares the project's own version changes
\* at most the text of one version element, and the version text of every
\* parent and dependency entry stays as it was.
C8_OnlyOwnVersion ==
    [][(/\ res'.op = "setVersion"
        /\ res'.status = "ok"
        /\ disk.pom.exists
        /\ VersionOf(TopLevel(PomRead(tree, disk, res'.useTree))) # <<"absent">>)
       => LET before == PomRead(tree, disk, res'.useTree)
              after  == PomWritten(tree', disk', res'.useTree)
          IN /\ EntryVersions(after) = EntryVersions(before)
             /\ \/ after = before
                \/ OneVersionTextReplaced(before, after, res'.ver)]_vars

\* --------------------------------------------- the structure of a plan file
\* What the claims say about a plan file is said of its lines, read off the
\* text without the patterns of the parser.

LinesOf(content) == split(content, "\n")

\* the place of the first marker line from line k on, 0 without one
RECURSIVE NextMarker(_, _)
NextMarker(lines, k) ==
    IF k > Len(lines) THEN 0
    ELSE IF lines[k] = MarkerLine THEN k ELSE NextMarker(lines, k + 1)

\* the header block: a marker on the first line and a marker on a later line
HasHeader(content) ==
    LET ls == LinesOf(content) IN
    Len(ls) >= 2 /\ ls[1] = MarkerLine /\ NextMarker(ls, 2) > 0

HeaderLines(content) ==
    LET ls == LinesOf(content) IN
    IF HasHeader(content) THEN SubSeq(ls, 2, NextMarker(ls, 2) - 1) ELSE <<>>

LinesAfterHeader(content) ==
    LET ls == LinesOf(content) IN
    IF HasHeader(content) THEN SubSeq(ls, NextMarker(ls, 2) + 1, Len(ls)) ELSE <<>>

BumpKeywords == {"patch", "minor", "major"}

DropWs(txt) == SelectSeq(txt, LAMBDA c : ~IsWs(c))

\* the place of the quote that closes the name of a line that opens with one
ClosingQuote(line) ==
    IF Len(line) >= 3 /\ IsQuote(line[1]) /\ \E i \in 3..Len(line) : IsQuote(line[i])
    THEN CHOOSE i \in 3..Len(line) :
            IsQuote(line[i]) /\ \A j \in 2..(i - 1) : ~IsQuote(line[j])
    ELSE 0

\* a line of the form "<project-name>": <bump-keyword>
IsEntryLine(line) ==
    /\ ClosingQuote(line) > 0
    /\ \E w \in BumpKeywords :
          DropWs(SubSeq(line, ClosingQuote(line) + 1, Len(line))) = <<":", w>>

EntryName(line) == SubSeq(line, 2, ClosingQuote(line) - 1)
EntryKeyword(line) == <<DropWs(line)[Len(DropWs(line))]>>

\* the entry lines of the headers of the .md files, in processing order
RECURSIVE EntryLinesOf(_)
EntryLinesOf(files) ==
    IF files = <<>> THEN <<>>
    ELSE (IF Head(files).name[Len(Head(files).name)] = ".md"
          THEN SelectSeq(HeaderLines(Head(files).content), IsEntryLine)
          ELSE <<>>) \o EntryLinesOf(Tail(files))

\* the keyword of the last of the lines that names project n, or undefined
RECURSIVE LastKeywordFor(_, _)
LastKeywordFor(n, lines) ==
    IF lines = <<>> THEN <<"undefined">>
    ELSE IF EntryName(lines[Len(lines)]) = n THEN EntryKeyword(lines[Len(lines)])
    ELSE LastKeywordFor(n, SubSeq(lines, 1, Len(lines) - 1))

PlanNames == {<<"a">>, <<"b">>}

\* a plan file that is a header of entry lines followed by notes without quotes
CleanPlan(content) ==
    /\ HasHeader(content)
    /\ HeaderLines(content) # <<>>
    /\ \A k \in 1..Len(HeaderLines(content)) : IsEntryLine(HeaderLines(content)[k])
    /\ \A k \in 1..Len(LinesAfterHeader(content)) :
          LET l == LinesAfterHeader(content)[k] IN
          l # MarkerLine /\ \A j \in 1..Len(l) : ~IsQuote(l[j])

CleanDir(dir) ==
    /\ dir.exists
    /\ \A k \in 1..Len(dir.files) :
          dir.files[k].name[2] = ".md" => CleanPlan(dir.files[k].content)

\* some project is named by two or more entry lines
NamedTwice(dir) ==
    \E i, j \in 1..Len(EntryLinesOf(dir.files)) :
        i < j /\ EntryName(EntryLinesOf(dir.files)[i]) = EntryName(EntryLinesOf(dir.files)[j])

C12_OnlyEntryLines ==
    Called("parseVersionPlans")
    => \A n \in PlanNames :
          FieldOf(res.out, n) = LastKeywordFor(n, EntryLinesOf(plansDir.files))

\* ------------------------------------------------- the runs of the script

Has(seq, x) == \E i \in 1..Len(seq) : seq[i] = x

\* the .md files among the files the directory had when the run started
PlanFilesAtStart == SelectSeq(run.startFiles, LAMBDA f : f.name[Len(f.name)] = ".md")

StepOrder ==
    <<"plansLoaded", "versionsApplied", "versionsRead", "changelogsGenerated",
      "plansDeleted", "lockfileRefreshed", "done">>

\* C13: on a plan directory without .md files the mapping is empty, and the
\* release script run on it reports that no projects were found and does not
\* end with a non-zero exit code.
C13_NoPlansNoError ==
    (/\ plansDir.exists
     /\ PlanFilesAtStart = <<>>
     /\ run.pc = "exited")
    => /\ parseVersionPlans([exists |-> TRUE, files |-> run.startFiles]) = <<>>
       /\ Has(run.messages, "No projects found in version plans")
       /\ run.exit = 0

\* C18: the steps of a run are taken in the order plans loaded, versions
\* applied, versions read, changelogs generated, plans deleted, lockfile
\* refreshed, done: the steps taken are always a beginning of that list, each
\* step adds the next one of the list, and a run that exits with 0 has taken
\* them all.
C18_FixedOrder ==
    [][/\ run'.steps = SubSeq(StepOrder, 1, Len(run'.steps))
       /\ Len(run'.steps) <= Len(run.steps) + 1
       /\ SubSeq(run'.steps, 1, Len(run.steps)) = run.steps
       /\ run'.exit = 0 => run'.steps = StepOrder]_vars

\* a run that is not a dry run went through all the steps and exited with 0
C18_Witness ==
    /\ run.pc = "exited"
    /\ run.exit = 0
    /\ ~options.isDryRun
    /\ run.steps = StepOrder
    /\ Len(run.executed) >= 3

\* a step has failed: the script gave up in it, or a changelog command threw
StepFailed ==
    run.failed # <<>> \/ Has(run.messages, "Changelog generation warning")

\* C19: once a step of the release script has failed, the run is over with a
\* non-zero exit code and no later step is taken.
C19_FailureIsFatal ==
    StepFailed => (run.pc = "exited" /\ run.exit # 0)

\* C20: a plan file is deleted only after the version command has been run
\* and has returned: as long as the step of the version changes has not been
\* completed by a command that returned, every plan file the directory had at
\* the start is still there.
C20_PlansKeptUntilApplied ==
    (plansDir.files # run.startFiles)
    => /\ Has(run.steps, "versionsApplied")
       /\ ~Has(run.failed, "versionsApplied")
       /\ Has(run.executed, "nx release version")

\* the run ended with 0, its plan files are deleted and the other file is kept
C20_Witness ==
    /\ run.pc = "exited"
    /\ run.exit = 0
    /\ Len(run.startFiles) = 2
    /\ Len(PlanFilesAtStart) = 1
    /\ Len(plansDir.files) = 1
    /\ plansDir.files[1].name[2] = ".txt"

\* the version command threw: the run ended with 1 and the plan files are there
C20_WitnessFailed ==
    /\ run.pc = "exited"
    /\ run.exit = 1
    /\ Has(run.failed, "versionsApplied")
    /\ disk # run.startDisk
    /\ PlanFilesAtStart # <<>>
    /\ plansDir.files = run.startFiles

\* ------------------------------------------------ the calls of the resolver

\* the texts of the version elements of a manifest
VersionTextsOf(txt) ==
    {SubSeq(txt, i + 1, j - 1) :
        <<i, j>> \in {ij \in (1..Len(txt)) \X (1..Len(txt)) :
                        /\ ij[1] < ij[2]
                        /\ txt[ij[1]] = "<version>"
                        /\ txt[ij[2]] = "</version>"
                        /\ \A m \in (ij[1] + 1)..(ij[2] - 1) : txt[m] # "</version>"}}

\* C14: getVersion fails with a not-found error when the directory has
\* neither pom.xml nor package.json, with a version-not-found error when the
\* pom.xml has no artifactId element followed by a version element, and with
\* a version-field-missing error when there is only a package.json and it has
\* no version field; the call changes no file, on disk or staged.
C14_GetVersionErrors ==
    [][res'.op = "getVersion"
       => /\ (~disk.pom.exists /\ ~disk.pkg.exists)
                => (res'.status = "error" /\ res'.error = "package.json not found")
          /\ (disk.pom.exists /\ ~HasArtifactThenVersion(disk.pom.text))
                => (res'.status = "error"
                    /\ res'.error = "Could not find version in pom.xml")
          /\ (~disk.pom.exists /\ disk.pkg.exists /\ disk.pkg.valid
                /\ ~HasField(disk.pkg.fields, "version"))
                => (res'.status = "error"
                    /\ res'.error = "No version field in package.json")
          /\ disk' = disk
          /\ tree' = tree]_vars

\* getVersion failed on a package.json without version that an earlier
\* setVersion with a tree left as it was on disk
C14_Witness ==
    /\ res.op = "getVersion"
    /\ res.status = "error"
    /\ res.error = "No version field in package.json"
    /\ ~disk.pom.exists
    /\ tree.pkg.exists

\* C15: in a directory with pom.xml and package.json, getVersion answers from
\* the pom.xml alone (the text of one of its version elements, or the error
\* of a pom.xml without version) and setVersion leaves the package.json as
\* it is, on disk and staged.
C15_XmlTakesPrecedence ==
    [][(disk.pom.exists /\ disk.pkg.exists)
       => /\ res'.op = "getVersion"
               => IF HasArtifactThenVersion(disk.pom.text)
                  THEN /\ res'.status = "ok"
                       /\ res'.out \in VersionTextsOf(disk.pom.text)
                  ELSE /\ res'.status = "error"
                       /\ res'.error = "Could not find version in pom.xml"
          /\ res'.op = "setVersion"
               => /\ disk'.pkg = disk.pkg
                  /\ tree'.pkg = tree.pkg
                  /\ res'.log = "[Maven] Updated"]_vars

\* both manifests are there, setVersion has written the new version into the
\* pom.xml on disk and the package.json still has its version
C15_Witness ==
    /\ res.op = "setVersion"
    /\ res.status = "ok"
    /\ ~res.useTree
    /\ disk.pom.exists
    /\ disk.pkg.exists
    /\ res.ver = <<"1", ".", "1">>
    /\ res.ver \in VersionTextsOf(disk.pom.text)
    /\ FieldOf(disk.pkg.fields, "version") = <<"1">>

\* C16: in a directory with a package.json only, after setVersion(root, v)
\* getVersion(root) returns v, and every field other than version has the
\* value and the place in the key order that it had.
C16_JsonRoundTrip ==
    [][(/\ res'.op = "setVersion"
        /\ res'.status = "ok"
        /\ ~res'.useTree
        /\ ~disk.pom.exists)
       => /\ getVersion(disk').status = "ok"
          /\ getVersion(disk').out = res'.ver
          /\ \A i \in 1..Len(disk.pkg.fields) :
                disk.pkg.fields[i].k # "version"
                   => (i <= Len(disk'.pkg.fields)
                       /\ disk'.pkg.fields[i] = disk.pkg.fields[i])
          /\ \A i \in 1..Len(disk'.pkg.fields) :
                disk'.pkg.fields[i].k # "version" => i <= Len(disk.pkg.fields)]_vars

\* name and version were there, the version is now 1.1 and name is untouched
C16_Witness ==
    /\ res.op = "setVersion"
    /\ res.status = "ok"
    /\ ~res.useTree
    /\ ~disk.pom.exists
    /\ disk.pkg.fields = <<[k |-> "name", v |-> <<"x">>],
                           [k |-> "version", v |-> <<"1", ".", "1">>]>>
    /\ getVersion(disk).out = <<"1", ".", "1">>

\* ------------------------------------------------- the generator's projects
\* the bump instruction of a project: its entry in the version plans, or the
\* specifier of the options
InstructionOf(name) ==
    IF options.specifierSource = "version-plans"
    THEN (IF FieldOf(parseVersionPlans(plansDir), name) = <<"undefined">> THEN <<>>
          ELSE FieldOf(parseVersionPlans(plansDir), name))
    ELSE options.specifier

Reported(name) == \E i \in 1..Len(res.results) : res.results[i].k = name

\* the generator came to the k-th project and could read its current version
CameTo(k) ==
    /\ \A j \in 1..(k - 1) : Reported(options.projects[j])
    /\ options.currentVersionResolver = "disk"
    /\ getVersion(disk[options.projects[k]]).status = "ok"

\* C17: in the version generator, a project whose bump instruction is a
\* syntactically valid explicit version gets that instruction as its new
\* version, whatever its current version is, also one that is no semantic
\* version.
C17_ExplicitVersionBypassesCurrent ==
    Called("versionGenerator") =>
        \A k \in 1..Len(options.projects) :
            (CameTo(k) /\ IsSemver(InstructionOf(options.projects[k]))) =>
                /\ Reported(options.projects[k])
                /\ FieldOf(res.results, options.projects[k]).newVersion
                       = InstructionOf(options.projects[k])

\* C17: a run gave the explicit version 1.0.1 to a project whose pom.xml held
\* the version 1, which is no semantic version, and staged it in the tree.
C17_Witness ==
    /\ Called("versionGenerator")
    /\ res.status = "ok"
    /\ \E k \in 1..Len(options.projects) :
          LET name == options.projects[k] IN
          /\ CameTo(k)
          /\ InstructionOf(name) = Version(1, 0, 1)
          /\ getVersion(disk[name]).out = <<"1">>
          /\ FieldOf(res.results, name).currentVersion = <<"1">>
          /\ FieldOf(res.results, name).newVersion = Version(1, 0, 1)
          /\ tree[name].pom.exists
          /\ VersionTextsOf(tree[name].pom.text) = {Version(1, 0, 1)}

\* ------------------------------------------------------------ the dry run
\* C21: in a dry run the release script executes no versioning, changelog or
\* lockfile command and deletes no plan file: at every point of the run every
\* manifest and every plan file is as it was before the run.
C21_DryRunNoEffect ==
    options.isDryRun =>
        /\ run.executed = <<>>
        /\ disk = run.startDisk
        /\ plansDir.files = run.startFiles

\* C21: a dry run went through all steps, for a planned project with a
\* manifest, and ended with exit code 0.
C21_Witness ==
    /\ options.isDryRun
    /\ run.pc = "exited"
    /\ run.exit = 0
    /\ run.steps = StepOrder
    /\ Len(run.planFiles) > 0
    /\ Len(run.updatedVersions) > 0

\* what a run that is no dry run reports after "nx release version" has
\* written newVersion for the planned projects of the files of the start
RealRunReports(newVersion) ==
    readUpdatedVersions(
        VersionsApplied(run.startDisk, run.projectsToRelease, newVersion),
        run.projectsToRelease, <<>>)

\* the versions a bump can lead to: those no manifest of the start holds
BumpedVersions ==
    {v \in NewVersions :
        \A p \in DOMAIN run.startDisk :
            readUpdatedVersion(run.startDisk, p) # v}

\* C22: a dry run goes through the same steps as a real run from the same
\* files and reports the same decisions: the same projects and for each of
\* them the version the real run reports and passes to the changelog command.
C22_DryRunSameDecisions ==
    (options.isDryRun /\ Has(run.steps, "versionsRead")) =>
        \A newVersion \in BumpedVersions :
            run.updatedVersions = RealRunReports(newVersion)

\* an instruction that is neither an increment keyword nor an explicit version
InvalidInstruction(instruction) ==
    /\ instruction # <<>>
    /\ ~IsSemver(instruction)
    /\ ~(Len(instruction) = 1 /\ instruction[1] \in BumpKeywords)

\* C23: in the version generator a bump instruction that is neither an
\* increment keyword nor a valid explicit version is fatal before any file is
\* touched: a run with such an instruction for one of its projects fails and
\* has written no manifest, in the tree or on disk, for any project.
C23_InvalidSpecifierBeforeWrites ==
    [][(VersionGenerator
        /\ \E k \in 1..Len(options.projects) :
              InvalidInstruction(InstructionOf(options.projects[k])))
       => (/\ res'.status = "error"
           /\ tree' = tree
           /\ disk' = disk)]_vars

\* ---------------------------------------------------------- the sync scripts
\* the app has both manifests, a package.json with a version field and a
\* pom.xml that declares a version of the project itself
HasVersionPair(app) ==
    /\ app.pom.exists
    /\ app.pkg.exists /\ app.pkg.valid
    /\ HasField(app.pkg.fields, "version")
    /\ VersionOf(TopLevel(app.pom.text)) # <<"absent">>

\* the pom.xml of after is that of before with the project's own version set
\* to the version of the package.json and nothing else changed
BroughtIntoAgreement(before, after) ==
    /\ after.pkg = before.pkg
    /\ VersionOf(TopLevel(after.pom.text)) = FieldOf(before.pkg.fields, "version")
    /\ EntryVersions(after.pom.text) = EntryVersions(before.pom.text)
    /\ \/ after.pom.text = before.pom.text
       \/ OneVersionTextReplaced(before.pom.text, after.pom.text,
                                 FieldOf(before.pkg.fields, "version"))

\* C25: after the sync of a project that has both manifests and whose pom.xml
\* declares a version of the project, the project's own version in the pom.xml
\* equals the version field of the package.json and all other content of the
\* pom.xml is unchanged.
C25_SyncBringsAgreement ==
    (/\ options.script = "sync-pom-version"
     /\ run.pc = "exited"
     /\ options.app # 0)
    => (HasVersionPair(run.startDisk[options.app])
        => /\ run.exit = 0
           /\ BroughtIntoAgreement(run.startDisk[options.app], disk[options.app]))

\* C26: the single-project sync ends with an exit code other than 0 whenever
\* it cannot bring the pom.xml into agreement: without the package.json path,
\* with a package.json that cannot be parsed, without a pom.xml, or with a
\* pom.xml in which no version tag is found.
C26_SyncFailureIsFatal ==
    (/\ options.script = "sync-pom-version"
     /\ run.pc = "exited"
     /\ \/ options.app = 0
        \/ ~run.startDisk[options.app].pkg.valid
        \/ ~run.startDisk[options.app].pom.exists
        \/ IndexOfToken(run.startDisk[options.app].pom.text, "<version>", 1) = 0)
    => run.exit # 0

\* the sync of the app can bring its pom.xml into agreement: both manifests are
\* there, the package.json parses and the pom.xml has a version tag
SyncSucceeds(app) ==
    /\ app.isDirectory
    /\ app.pkg.exists /\ app.pkg.valid
    /\ app.pom.exists
    /\ IndexOfToken(app.pom.text, "<version>", 1) # 0

\* the entries of the apps directory whose sync succeeds, in listing order
RECURSIVE SucceedingFrom(_, _)
SucceedingFrom(apps, i) ==
    IF i > Len(apps) THEN <<>>
    ELSE (IF SyncSucceeds(apps[i]) THEN <<i>> ELSE <<>>) \o SucceedingFrom(apps, i + 1)

\* C24: in the batch sync a failure while syncing one project does not stop
\* the batch: every entry of the listing is processed, in listing order, and
\* the summary counts as synchronized exactly the projects whose sync
\* succeeded.
C24_BatchContinuesAndCounts ==
    (options.script = "sync-all-poms" /\ run.pc = "exited")
    => /\ run.exit = 0
       /\ run.next = Len(disk) + 1
       /\ run.synced = SucceedingFrom(run.startDisk, 1)
       /\ run.syncedCount = Len(SucceedingFrom(run.startDisk, 1))

\* ------------------------------------------------------- the staged changes
\* the manifest the resolver works on, and what a call with a tree rewrites:
\* the staged content when the tree holds the manifest, else the file on disk
ManifestOf(d) == IF d.pom.exists THEN "pom" ELSE "pkg"
StagedOrDisk(t, d) ==
    IF t[ManifestOf(d)].exists THEN t[ManifestOf(d)] ELSE d[ManifestOf(d)]

\* manifest after is manifest before with version v and nothing else changed
RewrittenTo(before, after, v, file) ==
    IF file = "pom"
    THEN /\ VersionOf(TopLevel(after.text)) = v
         /\ \/ after.text = before.text
            \/ OneVersionTextReplaced(before.text, after.text, v)
    ELSE /\ FieldOf(after.fields, "version") = v
         /\ \A i \in 1..Len(before.fields) :
               before.fields[i].k # "version" => after.fields[i] = before.fields[i]

\* C27: a setVersion that is given a tree writes nothing to disk; the new
\* content appears in the tree only and is the staged content, or the file on
\* disk when nothing is staged, with the new version.  So after
\* setVersion(root, v1, tree) and setVersion(root, v2, tree) the tree holds the
\* manifest with version v2 and the file on disk is unchanged.
C27_StagedWritesOnly ==
    [][(/\ res'.op = "setVersion"
        /\ res'.status = "ok"
        /\ res'.useTree)
       => /\ disk' = disk
          /\ tree'[ManifestOf(disk)].exists
          /\ RewrittenTo(StagedOrDisk(tree, disk), tree'[ManifestOf(disk)],
                         res'.ver, ManifestOf(disk))]_vars

\* ------------------------------------------------ explicit versions in plans
\* the last plan file of the directory has the header line "a": 1.0.1, and no
\* later line names project a
LastPlanAssignsVersion ==
    /\ plansDir.exists
    /\ Len(plansDir.files) > 0
    /\ plansDir.files[Len(plansDir.files)].content
           = Join(<<MarkerLine, VersionA,
                    <<"\"", "b", "\"", ":", " ", "bogus">>, MarkerLine>>)

\* C28: a plan header line that assigns an explicit version to a project, as
\* "a": 1.0.1, puts the complete version string into the merged mapping as the
\* project's instruction, and the generator then sets the project to exactly
\* that version.
C28_ExplicitVersionInPlan ==
    (/\ Called("versionGenerator")
     /\ options.specifierSource = "version-plans"
     /\ options.currentVersionResolver = "disk"
     /\ options.projects = <<<<"a">>>>
     /\ getVersion(disk[<<"a">>]).status = "ok"
     /\ LastPlanAssignsVersion)
    => /\ FieldOf(parseVersionPlans(plansDir), <<"a">>) = Version(1, 0, 1)
       /\ res.status = "ok"
       /\ FieldOf(res.results, <<"a">>).newVersion = Version(1, 0, 1)

\* ------------------------------------------------ projects left as they are
\* the entry of the results of a run for a project
ResultOf(results, name) == FieldOf(results, name)

\* C29: in the version generator a project of the run that has no entry in
\* the merged plan mapping (version-plans source) gets no manifest write, in
\* the tree or on disk, and is reported with a new version equal to its
\* current version, the one its manifest holds; and a project reported with a
\* new version equal to its current version gets no manifest write either.
C29_NoEntryNoWrite ==
    [][VersionGenerator
       => \A k \in 1..Len(options.projects) :
            LET name == options.projects[k]
                reported == HasField(res'.results, name)
                result == ResultOf(res'.results, name)
            IN /\ (/\ options.specifierSource = "version-plans"
                   /\ ~HasField(parseVersionPlans(plansDir), name))
                  => /\ tree'[name] = tree[name]
                     /\ disk'[name] = disk[name]
                     /\ reported => /\ result.newVersion = result.currentVersion
                                    /\ result.currentVersion = getVersion(disk[name]).out
               /\ (reported /\ result.newVersion = result.currentVersion)
                  => /\ tree'[name] = tree[name]
                     /\ disk'[name] = disk[name]]_vars

\* a run over a and b with a plan for a only: a is staged with its new
\* version, b is reported as it is and not staged
C29_Witness ==
    /\ Called("versionGenerator")
    /\ res.status = "ok"
    /\ options.specifierSource = "version-plans"
    /\ options.projects = <<<<"a">>, <<"b">>>>
    /\ HasField(parseVersionPlans(plansDir), <<"a">>)
    /\ ~HasField(parseVersionPlans(plansDir), <<"b">>)
    /\ tree[<<"a">>] # NoTree
    /\ tree[<<"b">>] = NoTree
    /\ ResultOf(res.results, <<"a">>).newVersion = Version(1, 0, 1)
    /\ ResultOf(res.results, <<"b">>).newVersion = getVersion(disk[<<"b">>]).out
    /\ ResultOf(res.results, <<"b">>).currentVersion = getVersion(disk[<<"b">>]).out

\* ------------------------------------------------------ the two XML readers
\* C30: for a manifest that declares the project's coordinate with an explicit
\* version, which readProjectVersionFromPom of the version actions returns,
\* getVersion of the version resolver returns the same version string, also
\* when a parent or dependency entry precedes the project's own declaration.
C30_ReadersAgree ==
    (/\ Called("readProjectVersionFromPom")
     /\ DeclaresProject(pomXml, res.coords)
     /\ VersionOf(TopLevel(pomXml)) # <<"absent">>
     /\ res.out = VersionOf(TopLevel(pomXml)))
    => LET read == getVersion([pom |-> PomFile(pomXml), pkg |-> NoJson]) IN
       /\ read.status = "ok"
       /\ read.out = res.out

=============================================================================
